---- MODULE Spec2Model ----
(***************************************************************************)
(* State machine of the OCPP 1.6 client message engine (src/src/ocpp.c):   *)
(* the message pool, the ready / wait / timer lists, the two timestamps    *)
(* and the public operations ocpp_push_request, ocpp_push_request_defer,   *)
(* ocpp_push_response and ocpp_step.  Every operation is one action that   *)
(* models the whole handler.  The transport (ocpp_send / ocpp_recv), the   *)
(* clock (time), the id generator and the configuration store are the      *)
(* environment: their results are inputs of the actions.                   *)
(***************************************************************************)
EXTENDS Integers, Sequences, FiniteSets, TLC

\* ------------------------------------------------------------------------
\* Bounds of the model
\* ------------------------------------------------------------------------
\* Number of pool slots (OCPP_TX_POOL_LEN, 8 by default, scaled down).
OCPP_TX_POOL_LEN == 2
\* Transport-level timeout in seconds (OCPP_DEFAULT_TX_TIMEOUT_SEC, 10 by
\* default, scaled down so that several timeouts fit below MaxTime).
OCPP_DEFAULT_TX_TIMEOUT_SEC == 1
\* The clock runs from 0 to MaxTime.
MaxTime == 3
\* No slot is sent more than MaxSends times (cap of the attempts counter).
MaxSends == 3
\* The application pushes at most MaxPushes messages in a run.
MaxPushes == 2

\* ------------------------------------------------------------------------
\* Program constants
\* ------------------------------------------------------------------------
OCPP_EVENT_MESSAGE_INCOMING == 0
OCPP_EVENT_MESSAGE_FREE == 2
ENOMEM == 12
EINVAL == 22
ENOMSG == 42
ENOLINK == 67
EIO == 5

\* Message types the model distinguishes (a subset of ocpp_message_t that
\* covers every branch of is_transaction_related, is_droppable,
\* get_next_period and remove_oldest).
MessageTypes ==
    {"BootNotification", "StartTransaction", "StopTransaction",
     "MeterValues", "DataTransfer", "Heartbeat"}
\* Types the application pushes.
PushTypes ==
    {"BootNotification", "StartTransaction", "StopTransaction",
     "MeterValues", "DataTransfer"}

\* Message ids are strings, modelled as sequences of characters 1..3.
\* ocpp_generate_message_id fills the whole id buffer: generated ids have
\* full length.  Ids of received frames may be shorter (or empty).  There
\* are enough of them for a fresh one to exist whenever one is generated.
GeneratedIds ==
    << <<1, 1>>, <<1, 2>>, <<2, 1>>, <<2, 2>>, <<3, 1>>, <<3, 2>> >>
\* Ids of received responses: empty, a proper prefix of a generated id, two
\* generated ids and an id the generator never produces.
ReceivedIds == {<< >>, <<1>>, <<1, 1>>, <<1, 2>>, <<2, 3>>}
\* Ids of the central-system requests the application answers.
RequestIds == {<<1, 1>>}
\* id == NULL in new_message / push_message
NULL == << 0 >>

VARIABLES
    pool,           \* m.tx.pool: slot index -> struct message
    ready,          \* m.tx.ready: sequence of slot indices, head first
    wait,           \* m.tx.wait
    timer,          \* m.tx.timer
    tx_timestamp,   \* m.tx.timestamp
    rx_timestamp,   \* m.rx.timestamp
    event_callback, \* m.event_callback # NULL
    clock,          \* what time(NULL) returns
    config,         \* OCPP_DEFAULT_TX_RETRIES and the configuration keys
    transport,      \* how the transport behaves in this run (see below)
    pushed,         \* number of push calls the application has made
    conversion      \* the application's use of the type registry so far

vars == <<pool, ready, wait, timer, tx_timestamp, rx_timestamp,
          event_callback, clock, config, transport, pushed, conversion>>

Slots == 1..OCPP_TX_POOL_LEN

\* A zeroed struct message (memset 0): role NONE, empty id.  The h_ fields
\* are history (not program state): the number of ocpp_send calls made with
\* the message and the time of the last one (-1: none yet).
ZeroMessage ==
    [role |-> "NONE", type |-> "Authorize", id |-> << >>,
     expiry |-> 0, attempts |-> 0, h_sends |-> 0, h_sent_at |-> -1]

\* The type registry has not been called.
NoConversion ==
    [fn |-> "none", msgtype |-> 0, typestr |-> "", back_type |-> 0,
     back_str |-> ""]

\* What the event callback does when it is given MESSAGE_FREE: nothing
\* (fn "none"), or one call of fn with these arguments.  avoid holds the
\* ids ocpp_generate_message_id has handed out to calls still in progress.
NoCall ==
    [fn |-> "none", type |-> "Authorize", force |-> FALSE, timer_sec |-> 0,
     now |-> 0, req |-> ZeroMessage, err |-> FALSE, avoid |-> {}]

\* The engine state the operators below transform: the fields of m, the
\* state of the lock, and two logs of what an operation does while it runs:
\* the invocations of the event callback and the calls of the transport.
\* An operation starts from Engine, with empty logs; the logs of its result
\* are what the operation did.
Engine ==
    [pool |-> pool, ready |-> ready, wait |-> wait, timer |-> timer,
     tx_timestamp |-> tx_timestamp, rx_timestamp |-> rx_timestamp,
     event_callback |-> event_callback, config |-> config,
     locked |-> FALSE, events |-> << >>, calls |-> << >>,
     callback |-> NoCall, reentries |-> << >>]

\* ------------------------------------------------------------------------
\* Lists (ocpp.c:61-132)
\* ------------------------------------------------------------------------
add_last_to_list(msg, head) == Append(head, msg)

\* The source inserts at the tail here as well (list_add_tail).
add_first_to_list(msg, head) == Append(head, msg)

del_from_list(msg, head) == SelectSeq(head, LAMBDA x : x # msg)

put_msg_ready_infront(e, msg) ==
    [e EXCEPT !.ready = add_first_to_list(msg, @)]

\* As put_msg_ready, at the head of the list.
put_msg_ready_head(e, msg) == [e EXCEPT !.ready = <<msg>> \o @]

put_msg_ready(e, msg) == [e EXCEPT !.ready = add_last_to_list(msg, @)]

put_msg_wait(e, msg) == [e EXCEPT !.wait = add_last_to_list(msg, @)]

put_msg_timer(e, msg) == [e EXCEPT !.timer = add_last_to_list(msg, @)]

del_msg_ready(e, msg) == [e EXCEPT !.ready = del_from_list(msg, @)]

del_msg_wait(e, msg) == [e EXCEPT !.wait = del_from_list(msg, @)]

\* As del_msg_timer, leaving the message in the list.
del_msg_timer_keep(e, msg) == e

del_msg_timer(e, msg) == [e EXCEPT !.timer = del_from_list(msg, @)]

count_messages_waiting(e) == Len(e.wait)

count_messages_ticking(e) == Len(e.timer)

count_messages_ready(e) == Len(e.ready)

update_last_tx_timestamp(e, now) == [e EXCEPT !.tx_timestamp = now]

update_last_rx_timestamp(e, now) == [e EXCEPT !.rx_timestamp = now]

ocpp_lock(e) == [e EXCEPT !.locked = TRUE]

ocpp_unlock(e) == [e EXCEPT !.locked = FALSE]

\* As dispatch_event, calling the callback without releasing the lock.
dispatch_event_locked(e, event_type, msg, slot, cause) ==
    IF e.event_callback
    THEN [e EXCEPT !.events = Append(@,
                      [kind |-> event_type, msg |-> msg, slot |-> slot,
                       cause |-> cause, locked |-> e.locked])]
    ELSE e

\* ------------------------------------------------------------------------
\* Events and the pool (ocpp.c:146-199)
\* ------------------------------------------------------------------------
\* The callback is recorded with what it is given (the event type and the
\* message as it is at that moment) and with the state of the lock while it
\* runs.  slot and cause are history: the pool slot of msg (0 for a received
\* frame) and the place the event comes from.
dispatch_event(e, event_type, msg, slot, cause) ==
    IF e.event_callback
    THEN LET u == ocpp_unlock(e)
             c == [u EXCEPT !.events = Append(@,
                      [kind |-> event_type, msg |-> msg, slot |-> slot,
                       cause |-> cause, locked |-> u.locked])]
         IN  ocpp_lock(c)
    ELSE e

\* The first slot whose role is NONE, marked ALLOC; msg = 0 stands for NULL.
alloc_message(e) ==
    LET free == {i \in Slots : e.pool[i].role = "NONE"}
    IN  IF free = {}
        THEN [e |-> e, msg |-> 0]
        ELSE LET i == CHOOSE k \in free : \A j \in free : k <= j
             IN  [e |-> [e EXCEPT !.pool[i].role = "ALLOC"], msg |-> i]

\* As new_message, never calling ocpp_generate_message_id: a request keeps
\* the id of the zeroed slot.
new_message_no_id(e, id, type, err, gen) ==
    LET a == alloc_message(e)
    IN  IF a.msg = 0
        THEN a
        ELSE [e |-> [a.e EXCEPT !.pool[a.msg] =
                        [@ EXCEPT !.type = type,
                                  !.attempts = 0,
                                  !.role = IF id # NULL
                                           THEN (IF err THEN "CALLERROR"
                                                        ELSE "CALLRESULT")
                                           ELSE "CALL",
                                  !.id = IF id # NULL THEN id ELSE @]],
              msg |-> a.msg]

\* gen is what ocpp_generate_message_id writes when it is called.
new_message(e, id, type, err, gen) ==
    LET a == alloc_message(e)
    IN  IF a.msg = 0
        THEN a
        ELSE [e |-> [a.e EXCEPT !.pool[a.msg] =
                        [@ EXCEPT !.type = type,
                                  !.attempts = 0,
                                  !.role = IF id # NULL
                                           THEN (IF err THEN "CALLERROR"
                                                        ELSE "CALLRESULT")
                                           ELSE "CALL",
                                  !.id = IF id # NULL THEN id ELSE gen]],
              msg |-> a.msg]

\* memcmp(msgid, msg->body.id, strlen(msgid)) == 0
IdMatches(msgid, stored) ==
    /\ Len(msgid) <= Len(stored)
    /\ \A k \in 1..Len(msgid) : msgid[k] = stored[k]

\* The first message of the list whose id matches; 0 stands for NULL.
find_msg_by_idstr(e, list_head, msgid) ==
    LET hits == {k \in 1..Len(list_head) :
                    IdMatches(msgid, e.pool[list_head[k]].id)}
    IN  IF hits = {}
        THEN 0
        ELSE list_head[CHOOSE k \in hits : \A j \in hits : k <= j]

is_transaction_related(m) ==
    m.type \in {"StartTransaction", "StopTransaction", "MeterValues"}

\* As is_droppable, without the exception of BootNotification.
is_droppable_any_boot(m) == ~is_transaction_related(m)

is_droppable(m) ==
    ~is_transaction_related(m) /\ m.type # "BootNotification"

\* f is the list_add_func_t: "put_msg_ready" or "put_msg_timer".
push_message(e, id, type, timer_expiry, f, err, gen) ==
    LET n == new_message(e, id, type, err, gen)
    IN  IF n.msg = 0
        THEN [e |-> e, rc |-> -ENOMEM]
        ELSE LET s == [n.e EXCEPT !.pool[n.msg].expiry = timer_expiry]
             IN  [e |-> IF f = "put_msg_ready"
                        THEN put_msg_ready(s, n.msg)
                        ELSE put_msg_timer(s, n.msg),
                  rc |-> 0]

\* As IsEvictable, passing over BootNotification only.
IsEvictable_boot_only(m) == m.type # "BootNotification"

\* As IsEvictable, passing over every message is_droppable protects.
IsEvictable_droppable(m) == is_droppable(m)

\* The messages remove_oldest removes: the types it does not pass over.
IsEvictable(m) ==
    /\ m.type # "BootNotification"
    /\ m.type # "StartTransaction"
    /\ m.type # "StopTransaction"

\* ------------------------------------------------------------------------
\* The callback calling back into the engine (ocpp.c:146-175)
\* ------------------------------------------------------------------------
\* What free_message, remove_oldest and the push functions do when it is
\* the callback that calls them while it handles MESSAGE_FREE: as the
\* functions themselves, the MESSAGE_FREE a forced push raises in its turn
\* being handled by the callback without a further call.
callback_free_message(e, msg, cause) ==
    [dispatch_event(e, OCPP_EVENT_MESSAGE_FREE, e.pool[msg], msg, cause)
        EXCEPT !.pool[msg] = ZeroMessage]

\* remove_oldest from the point where the walk of the ready list has found
\* the evictable messages at the positions hits.
callback_evict(e, hits) ==
    IF hits = {}
    THEN [e |-> e, rc |-> -ENOMEM]
    ELSE LET msg == e.ready[CHOOSE k \in hits : \A j \in hits : k <= j]
         IN  [e |-> callback_free_message(del_msg_ready(e, msg), msg,
                                          "evict"),
              rc |-> 0]

callback_remove_oldest(e) ==
    callback_evict(e, {k \in 1..Len(e.ready) :
                          IsEvictable(e.pool[e.ready[k]])})

\* push_message from the point where new_message has returned n.
callback_put(e, n, timer_expiry, f) ==
    IF n.msg = 0
    THEN [e |-> e, rc |-> -ENOMEM]
    ELSE [e |-> IF f = "put_msg_ready"
                THEN put_msg_ready(
                        [n.e EXCEPT !.pool[n.msg].expiry = timer_expiry],
                        n.msg)
                ELSE put_msg_timer(
                        [n.e EXCEPT !.pool[n.msg].expiry = timer_expiry],
                        n.msg),
          rc |-> 0]

callback_push_message(e, id, type, timer_expiry, f, err, gen) ==
    callback_put(e, new_message(e, id, type, err, gen), timer_expiry, f)

\* The lock released on the way out of a push function, r being what
\* push_message returned.
callback_unlock(r) == [e |-> ocpp_unlock(r.e), rc |-> r.rc]

\* The second attempt of a forced push, first being what the first one
\* returned.
callback_push_forced(first, type, force, gen) ==
    IF first.rc # 0 /\ force
    THEN callback_push_message(callback_remove_oldest(first.e).e, NULL,
                               type, 0, "put_msg_ready", FALSE, gen)
    ELSE first

callback_push_request(e, type, force, gen) ==
    callback_unlock(
        callback_push_forced(
            callback_push_message(ocpp_lock(e), NULL, type, 0,
                                  "put_msg_ready", FALSE, gen),
            type, force, gen))

callback_push_request_defer(e, type, timer_sec, now, gen) ==
    callback_unlock(
        callback_push_message(ocpp_lock(e), NULL, type, now + timer_sec,
                              IF timer_sec = 0 THEN "put_msg_ready"
                                               ELSE "put_msg_timer",
                              FALSE, gen))

callback_push_response(e, req, err) ==
    callback_unlock(
        callback_push_message(ocpp_lock(e), req.id, req.type, 0,
                              "put_msg_ready", err, NULL))

\* What ocpp_generate_message_id writes for a call made from the callback:
\* the first id that no live message carries and that the call in progress
\* has not been handed (NULL when the ids of the model are used up).
callback_id(e) ==
    LET taken == {e.pool[i].id : i \in Slots} \cup e.callback.avoid
        free == {k \in 1..Len(GeneratedIds) : GeneratedIds[k] \notin taken}
    IN  IF free = {}
        THEN NULL
        ELSE GeneratedIds[CHOOSE k \in free : \A j \in free : k <= j]

\* The call cb the callback makes on the engine u (the lock released).
callback_call(u, cb, gen) ==
    IF cb.fn = "ocpp_push_request"
    THEN callback_push_request(u, cb.type, cb.force, gen)
    ELSE IF cb.fn = "ocpp_push_request_defer"
    THEN callback_push_request_defer(u, cb.type, cb.timer_sec, cb.now, gen)
    ELSE callback_push_response(u, cb.req, cb.err)

\* The callback returns, r being what its call returned: the lock is taken
\* again.  The call is recorded with the slot being freed, the role that
\* slot carries, the value returned and the slot the new message was given
\* (0: none).
callback_return(e, freeing, r) ==
    LET cb == e.callback
        list == IF cb.fn = "ocpp_push_request_defer" /\ cb.timer_sec # 0
                THEN r.e.timer
                ELSE r.e.ready
        new == IF r.rc = 0 THEN list[Len(list)] ELSE 0
    IN  ocpp_lock([r.e EXCEPT !.reentries = Append(@,
                        [fn |-> cb.fn, freeing |-> freeing, rc |-> r.rc,
                         slot |-> new, held |-> e.pool[freeing].role])])

\* The callback, given MESSAGE_FREE for the message of slot freeing (not
\* zeroed yet), makes the call e.callback on the engine as it is then.
callback_push(e, freeing) ==
    callback_return(e, freeing,
                    callback_call(ocpp_unlock(e), e.callback, callback_id(e)))

\* The callback given MESSAGE_FREE for the message of slot msg, d being the
\* engine when the event is dispatched.
callback_free(d, msg) ==
    IF d.event_callback /\ d.callback.fn # "none"
    THEN callback_push(d, msg)
    ELSE d

\* As free_message, the slot zeroed before the event is dispatched.
free_message_zeroed(e, msg, cause) ==
    LET z == [e EXCEPT !.pool[msg] = ZeroMessage]
    IN  dispatch_event(z, OCPP_EVENT_MESSAGE_FREE, z.pool[msg], msg, cause)

\* As free_message, the slot given back to the pool (role NONE) before the
\* event is dispatched and zeroed after it.
free_message_released(e, msg, cause) ==
    [callback_free(dispatch_event([e EXCEPT !.pool[msg].role = "NONE"],
                                  OCPP_EVENT_MESSAGE_FREE, e.pool[msg], msg,
                                  cause), msg)
        EXCEPT !.pool[msg] = ZeroMessage]

\* The event is dispatched, then the slot is zeroed.  What the callback
\* calls while it handles the event (e.callback) is applied in between.
free_message(e, msg, cause) ==
    [callback_free(dispatch_event(e, OCPP_EVENT_MESSAGE_FREE, e.pool[msg],
                                  msg, cause), msg)
        EXCEPT !.pool[msg] = ZeroMessage]

\* As should_drop, dropping only once attempts exceeds max_attempts.
should_drop_late(e, m) ==
    LET max_attempts == e.config.OCPP_DEFAULT_TX_RETRIES
    IN  IF ~is_droppable(m) THEN FALSE
        ELSE IF m.attempts <= max_attempts THEN FALSE
        ELSE TRUE

\* As should_drop, dropping nothing.
should_drop_never(e, m) == FALSE

should_drop(e, m) ==
    LET max_attempts == e.config.OCPP_DEFAULT_TX_RETRIES
    IN  IF ~is_droppable(m) THEN FALSE
        ELSE IF m.attempts < max_attempts THEN FALSE
        ELSE TRUE

\* As should_send_heartbeat, whatever is queued or in flight.
should_send_heartbeat_busy(e, now) ==
    LET interval == e.config.HeartbeatInterval
        disabled == interval = 0
        elapsed == now - e.tx_timestamp
    IN  IF disabled \/ elapsed < interval
        THEN FALSE
        ELSE TRUE

\* As should_send_heartbeat, waiting until more than the interval elapsed.
should_send_heartbeat_late(e, now) ==
    LET interval == e.config.HeartbeatInterval
        disabled == interval = 0
        elapsed == now - e.tx_timestamp
    IN  IF disabled \/ elapsed <= interval \/ count_messages_ready(e) > 0
           \/ count_messages_waiting(e) > 0
        THEN FALSE
        ELSE TRUE

should_send_heartbeat(e, now) ==
    LET interval == e.config.HeartbeatInterval
        disabled == interval = 0
        elapsed == now - e.tx_timestamp
    IN  IF disabled \/ elapsed < interval \/ count_messages_ready(e) > 0
           \/ count_messages_waiting(e) > 0
        THEN FALSE
        ELSE TRUE

\* As get_retry_interval, with no interval.
get_retry_interval_none(m, now) == now

get_retry_interval(m, now) == now + OCPP_DEFAULT_TX_TIMEOUT_SEC

\* As get_next_period, the interval of a transaction-related message not
\* multiplied by its attempts.
get_next_period_flat(e, m, now) ==
    LET interval ==
            IF is_transaction_related(m)
            THEN e.config.TransactionMessageRetryInterval
            ELSE IF m.type = "BootNotification" \/ m.type = "Heartbeat"
            THEN e.config.HeartbeatInterval
            ELSE OCPP_DEFAULT_TX_TIMEOUT_SEC
    IN  now + interval

get_next_period(e, m, now) ==
    LET interval ==
            IF is_transaction_related(m)
            THEN e.config.TransactionMessageRetryInterval * m.attempts
            ELSE IF m.type = "BootNotification" \/ m.type = "Heartbeat"
            THEN e.config.HeartbeatInterval
            ELSE OCPP_DEFAULT_TX_TIMEOUT_SEC
    IN  now + interval

\* As update_message_expiry, the attempts of the message counted anew.
update_message_expiry_anew(e, msg, now) ==
    [e EXCEPT !.pool[msg].expiry = get_next_period(e, e.pool[msg], now),
              !.pool[msg].attempts = 0]

update_message_expiry(e, msg, now) ==
    [e EXCEPT !.pool[msg].expiry = get_next_period(e, e.pool[msg], now)]

\* As ocpp_send, the send recorded in the tx timestamp as well.
ocpp_send_stamped(e, msg, now, rc) ==
    LET m == e.pool[msg]
    IN  [e EXCEPT
            !.calls = Append(@,
                [fn |-> "ocpp_send", slot |-> msg, msg |-> m, rc |-> rc,
                 now |-> now, locked |-> e.locked,
                 waiting |-> Len(e.wait), prev_sent_at |-> m.h_sent_at]),
            !.pool[msg] =
                [@ EXCEPT !.h_sends = @ + 1, !.h_sent_at = now],
            !.tx_timestamp = now]

\* ------------------------------------------------------------------------
\* Transport (the environment; ocpp.c:309, ocpp.c:450-452)
\* ------------------------------------------------------------------------
\* A call of ocpp_send with the message of slot msg, returning rc.  The call
\* is recorded with the message as it is passed, the state of the lock and
\* the length of the wait list at that moment, and the time of the previous
\* send of the same message; the history fields of the slot are updated.
ocpp_send(e, msg, now, rc) ==
    LET m == e.pool[msg]
    IN  [e EXCEPT
            !.calls = Append(@,
                [fn |-> "ocpp_send", slot |-> msg, msg |-> m, rc |-> rc,
                 now |-> now, locked |-> e.locked,
                 waiting |-> Len(e.wait), prev_sent_at |-> m.h_sent_at]),
            !.pool[msg] =
                [@ EXCEPT !.h_sends = @ + 1, !.h_sent_at = now]]

\* A call of ocpp_recv returning rx.err and filling in rx.msg.
ocpp_recv(e, now, rx) ==
    [e EXCEPT
        !.calls = Append(@,
            [fn |-> "ocpp_recv", slot |-> 0, msg |-> rx.msg, rc |-> rx.err,
             now |-> now, locked |-> e.locked,
             waiting |-> Len(e.wait), prev_sent_at |-> -1])]

\* ------------------------------------------------------------------------
\* The dispatcher (ocpp.c:297-411)
\* ------------------------------------------------------------------------
\* As send_message, keeping a message whose send failed while its attempts
\* do not exceed OCPP_DEFAULT_TX_RETRIES.
send_message_keep(e, msg, now, rc) ==
    LET a == [e EXCEPT !.pool[msg].attempts = @ + 1,
                       !.pool[msg].expiry =
                           get_retry_interval(e.pool[msg], now)]
        b == del_msg_ready(a, msg)
        c == ocpp_send(b, msg, now, rc)
        m == c.pool[msg]
    IN  IF rc = 0
        THEN IF m.role = "CALL"
             THEN put_msg_wait(c, msg)
             ELSE free_message(c, msg, "send")
        ELSE IF m.attempts <= e.config.OCPP_DEFAULT_TX_RETRIES
                \/ is_transaction_related(m)
                \/ m.type = "BootNotification"
             THEN put_msg_wait(c, msg)
             ELSE free_message(c, msg, "send")

\* As send_message, a message whose send failed put back in the ready
\* list instead of the wait list.
send_message_requeue(e, msg, now, rc) ==
    LET a == [e EXCEPT !.pool[msg].attempts = @ + 1,
                       !.pool[msg].expiry =
                           get_retry_interval(e.pool[msg], now)]
        b == del_msg_ready(a, msg)
        c == ocpp_send(b, msg, now, rc)
        m == c.pool[msg]
    IN  IF rc = 0
        THEN IF m.role = "CALL"
             THEN put_msg_wait(c, msg)
             ELSE free_message(c, msg, "send")
        ELSE IF m.attempts < e.config.OCPP_DEFAULT_TX_RETRIES
                \/ is_transaction_related(m)
                \/ m.type = "BootNotification"
             THEN put_msg_ready(c, msg)
             ELSE free_message(c, msg, "send")

\* As send_message, a message sent successfully put in the wait list
\* whatever its role.
send_message_park(e, msg, now, rc) ==
    LET a == [e EXCEPT !.pool[msg].attempts = @ + 1,
                       !.pool[msg].expiry =
                           get_retry_interval(e.pool[msg], now)]
        b == del_msg_ready(a, msg)
        c == ocpp_send(b, msg, now, rc)
        m == c.pool[msg]
    IN  IF rc = 0
        THEN put_msg_wait(c, msg)
        ELSE IF m.attempts < e.config.OCPP_DEFAULT_TX_RETRIES
                \/ is_transaction_related(m)
                \/ m.type = "BootNotification"
             THEN put_msg_wait(c, msg)
             ELSE free_message(c, msg, "send")

send_message(e, msg, now, rc) ==
    LET a == [e EXCEPT !.pool[msg].attempts = @ + 1,
                       !.pool[msg].expiry =
                           get_retry_interval(e.pool[msg], now)]
        b == del_msg_ready(a, msg)
        c == ocpp_send(b, msg, now, rc)
        m == c.pool[msg]
    IN  IF rc = 0
        THEN IF m.role = "CALL"
             THEN put_msg_wait(c, msg)
             ELSE free_message(c, msg, "send")
        ELSE IF m.attempts < e.config.OCPP_DEFAULT_TX_RETRIES
                \/ is_transaction_related(m)
                \/ m.type = "BootNotification"
             THEN put_msg_wait(c, msg)
             ELSE free_message(c, msg, "send")

\* The body of the loop of process_tx_timeout, over the messages of list.
RECURSIVE tx_timeout_each(_, _, _)
tx_timeout_each(e, list, now) ==
    IF list = << >>
    THEN e
    ELSE LET msg == Head(list)
         IN  IF e.pool[msg].expiry > now
             THEN tx_timeout_each(e, Tail(list), now)
             ELSE LET d == del_msg_wait(e, msg)
                      n == IF should_drop(d, d.pool[msg])
                           THEN free_message(d, msg, "timeout")
                           ELSE put_msg_ready_infront(d, msg)
                  IN  tx_timeout_each(n, Tail(list), now)

process_tx_timeout(e, now) == tx_timeout_each(e, e.wait, now)

\* As process_queued_messages, sending whether or not a message waits.
process_queued_messages_ungated(e, now, rc) ==
    LET t == process_tx_timeout(e, now)
    IN  IF t.ready # << >>
        THEN send_message(t, Head(t.ready), now, rc)
        ELSE t

process_queued_messages(e, now, rc) ==
    LET t == process_tx_timeout(e, now)
    IN  IF count_messages_waiting(t) > 0
        THEN t
        ELSE IF t.ready # << >>
        THEN send_message(t, Head(t.ready), now, rc)
        ELSE t

process_periodic_messages(e, now, rc, gen) ==
    IF should_send_heartbeat(e, now)
    THEN LET n == new_message(e, NULL, "Heartbeat", FALSE, gen)
         IN  IF n.msg = 0
             THEN e
             ELSE process_queued_messages(put_msg_ready(n.e, n.msg), now, rc)
    ELSE e

\* The body of the loop of process_timer_messages.
RECURSIVE timer_each(_, _, _)
timer_each(e, list, now) ==
    IF list = << >>
    THEN e
    ELSE LET msg == Head(list)
         IN  IF e.pool[msg].expiry > now
             THEN timer_each(e, Tail(list), now)
             ELSE timer_each(put_msg_ready(del_msg_timer(e, msg), msg),
                             Tail(list), now)

\* As process_timer_messages, one second early.
process_timer_messages_early(e, now) ==
    IF count_messages_ticking(e) <= 0
    THEN e
    ELSE timer_each(e, e.timer, now + 1)

process_timer_messages(e, now) ==
    IF count_messages_ticking(e) <= 0
    THEN e
    ELSE timer_each(e, e.timer, now)

\* ------------------------------------------------------------------------
\* The ingress router (ocpp.c:413-489)
\* ------------------------------------------------------------------------
\* As process_central_response, leaving the request in the wait list when
\* it puts it there again.
process_central_response_keep(e, received, req, now) ==
    LET m == e.pool[req]
        max_attempts == e.config.TransactionMessageAttempts
    IN  IF received.role = "CALLERROR" /\ is_transaction_related(m)
           /\ m.attempts < max_attempts
        THEN put_msg_wait(update_message_expiry(e, req, now), req)
        ELSE free_message(del_msg_wait(e, req), req, "response")

\* As process_central_response, retrying while attempts does not exceed
\* TransactionMessageAttempts.
process_central_response_late(e, received, req, now) ==
    LET h == del_msg_wait(e, req)
        m == h.pool[req]
        max_attempts == e.config.TransactionMessageAttempts
    IN  IF received.role = "CALLERROR" /\ is_transaction_related(m)
           /\ m.attempts <= max_attempts
        THEN put_msg_wait(update_message_expiry(h, req, now), req)
        ELSE free_message(h, req, "response")

process_central_response(e, received, req, now) ==
    LET h == del_msg_wait(e, req)
        m == h.pool[req]
        max_attempts == e.config.TransactionMessageAttempts
    IN  IF received.role = "CALLERROR" /\ is_transaction_related(m)
           /\ m.attempts < max_attempts
        THEN put_msg_wait(update_message_expiry(h, req, now), req)
        ELSE free_message(h, req, "response")

\* As process_incoming_messages, a response matched to no waiting message
\* passed on as an incoming message.
process_incoming_messages_lenient(e, now, rx) ==
    LET r == ocpp_lock(ocpp_recv(ocpp_unlock(e), now, rx))
        received == rx.msg
        req == find_msg_by_idstr(r, r.wait, received.id)
        h == IF rx.err # 0
             THEN [e |-> r, err |-> rx.err]
             ELSE IF received.role = "CALL"
             THEN [e |-> r, err |-> 0]
             ELSE IF received.role \in {"CALLRESULT", "CALLERROR"}
             THEN IF req = 0
                  THEN [e |-> update_last_tx_timestamp(r, now), err |-> 0]
                  ELSE [e |-> update_last_tx_timestamp(
                                process_central_response(r, received, req, now),
                                now),
                        err |-> 0]
             ELSE [e |-> r, err |-> -EINVAL]
    IN  IF h.err # -ENOMSG
        THEN dispatch_event(IF h.err >= 0
                            THEN update_last_rx_timestamp(h.e, now)
                            ELSE h.e,
                            h.err, received, 0, "incoming")
        ELSE h.e

process_incoming_messages(e, now, rx) ==
    LET r == ocpp_lock(ocpp_recv(ocpp_unlock(e), now, rx))
        received == rx.msg
        req == find_msg_by_idstr(r, r.wait, received.id)
        h == IF rx.err # 0
             THEN [e |-> r, err |-> rx.err]
             ELSE IF received.role = "CALL"
             THEN [e |-> r, err |-> 0]
             ELSE IF received.role \in {"CALLRESULT", "CALLERROR"}
             THEN IF req = 0
                  THEN [e |-> r, err |-> -ENOLINK]
                  ELSE [e |-> update_last_tx_timestamp(
                                process_central_response(r, received, req, now),
                                now),
                        err |-> 0]
             ELSE [e |-> r, err |-> -EINVAL]
    IN  IF h.err # -ENOMSG
        THEN dispatch_event(IF h.err >= 0
                            THEN update_last_rx_timestamp(h.e, now)
                            ELSE h.e,
                            h.err, received, 0, "incoming")
        ELSE h.e

\* ------------------------------------------------------------------------
\* Pushing (ocpp.c:491-528)
\* ------------------------------------------------------------------------
\* As remove_oldest, removing the message closest to the tail.
remove_newest(e) ==
    LET hits == {k \in 1..Len(e.ready) : IsEvictable(e.pool[e.ready[k]])}
    IN  IF hits = {}
        THEN [e |-> e, rc |-> -ENOMEM]
        ELSE LET msg == e.ready[CHOOSE k \in hits : \A j \in hits : k >= j]
             IN  [e |-> free_message(del_msg_ready(e, msg), msg, "evict"),
                  rc |-> 0]

\* As remove_oldest, looking through the wait list and the timer list
\* after the ready list.
remove_oldest_anywhere(e) ==
    LET all == e.ready \o e.wait \o e.timer
        hits == {k \in 1..Len(all) : IsEvictable(e.pool[all[k]])}
    IN  IF hits = {}
        THEN [e |-> e, rc |-> -ENOMEM]
        ELSE LET at == CHOOSE k \in hits : \A j \in hits : k <= j
                 msg == all[at]
                 d == IF at <= Len(e.ready)
                      THEN del_msg_ready(e, msg)
                      ELSE IF at <= Len(e.ready) + Len(e.wait)
                      THEN del_msg_wait(e, msg)
                      ELSE del_msg_timer(e, msg)
             IN  [e |-> free_message(d, msg, "evict"), rc |-> 0]

remove_oldest(e) ==
    LET hits == {k \in 1..Len(e.ready) : IsEvictable(e.pool[e.ready[k]])}
    IN  IF hits = {}
        THEN [e |-> e, rc |-> -ENOMEM]
        ELSE LET msg == e.ready[CHOOSE k \in hits : \A j \in hits : k <= j]
             IN  [e |-> free_message(del_msg_ready(e, msg), msg, "evict"),
                  rc |-> 0]

\* ------------------------------------------------------------------------
\* Public API (ocpp.c:632-723)
\* ------------------------------------------------------------------------
ocpp_push_request(e, type, force, gen) ==
    LET l == ocpp_lock(e)
        first == push_message(l, NULL, type, 0, "put_msg_ready", FALSE, gen)
        r == IF first.rc # 0 /\ force
             THEN push_message(remove_oldest(first.e).e, NULL, type, 0,
                               "put_msg_ready", FALSE, gen)
             ELSE first
    IN  [e |-> ocpp_unlock(r.e), rc |-> r.rc]

ocpp_push_request_defer(e, type, timer_sec, now, gen) ==
    LET f == IF timer_sec = 0 THEN "put_msg_ready" ELSE "put_msg_timer"
        r == push_message(ocpp_lock(e), NULL, type, now + timer_sec, f,
                          FALSE, gen)
    IN  [e |-> ocpp_unlock(r.e), rc |-> r.rc]

ocpp_push_response(e, req, err) ==
    LET r == push_message(ocpp_lock(e), req.id, req.type, 0,
                          "put_msg_ready", err, NULL)
    IN  [e |-> ocpp_unlock(r.e), rc |-> r.rc]

\* The value returned; the lock is taken for the count and released.
ocpp_count_pending_requests(e) ==
    LET l == ocpp_lock(e)
    IN  count_messages_ready(l) + count_messages_waiting(l)
            + count_messages_ticking(l)

\* As ocpp_step, with one more process_queued_messages at its end.
ocpp_step_again(e, now, rc1, rx, rc2, gen) ==
    LET l == ocpp_lock(e)
        q == process_queued_messages(l, now, rc1)
        i == process_incoming_messages(q, now, rx)
        p == process_periodic_messages(i, now, rc2, gen)
        t == process_timer_messages(p, now)
    IN  ocpp_unlock(process_queued_messages(t, now, rc2))

\* rc1 and rc2 are the results of the (at most two) ocpp_send calls of the
\* step, rx is the result of its ocpp_recv call.
ocpp_step(e, now, rc1, rx, rc2, gen) ==
    LET l == ocpp_lock(e)
        q == process_queued_messages(l, now, rc1)
        i == process_incoming_messages(q, now, rx)
        p == process_periodic_messages(i, now, rc2, gen)
        t == process_timer_messages(p, now)
    IN  ocpp_unlock(t)

\* ------------------------------------------------------------------------
\* The environment's inputs
\* ------------------------------------------------------------------------
\* The transport of a run is one of:
\*   "any"        every send result and every received frame is possible;
\*   "down"       every send fails and nothing is received;
\*   "silent"     every send succeeds and nothing is received;
\*   "callerror"  every send succeeds and the central system answers each
\*                CALL, in the step that sends it, with a CALLERROR carrying
\*                its id (and may repeat the answer while the CALL waits).
Transports == {"any", "down", "silent", "callerror"}

\* A setup is a build of the library (OCPP_DEFAULT_TX_RETRIES is a
\* compile-time option, ocpp.c:27-29), the values of the configuration keys
\* the engine reads, whether ocpp_init is given a callback, and a transport.
Setup(t, cb, retries, heartbeat, attempts, interval) ==
    [transport |-> t, event_callback |-> cb,
     config |-> [OCPP_DEFAULT_TX_RETRIES |-> retries,
                 HeartbeatInterval |-> heartbeat,
                 TransactionMessageAttempts |-> attempts,
                 TransactionMessageRetryInterval |-> interval]]

AnySetups == {Setup("any", TRUE, 2, 2, 2, 1)}

DownSetups == {Setup("down", TRUE, r, 2, 1, 1) : r \in {1, 2}}

SilentSetups ==
    {Setup("silent", TRUE, r, 2, 1, 1) : r \in {1, 2}}
    \cup {Setup("silent", FALSE, 1, 0, 1, 1)}

CallErrorSetups ==
    {Setup("callerror", TRUE, 1, 0, 1, 1),
     Setup("callerror", TRUE, 1, 0, 2, 2),
     Setup("callerror", TRUE, 1, 0, 3, 1)}

\* The setups the contracts of the push calls are checked over: a transport
\* that keeps messages queued, with and without a callback.
PushSetups ==
    {Setup("down", TRUE, 2, 2, 1, 1), Setup("silent", FALSE, 1, 0, 1, 1)}

Setups == AnySetups \cup DownSetups \cup SilentSetups \cup CallErrorSetups

\* What ocpp_send returns: 0, or a negative value (the transport failed).
SendResults ==
    IF transport = "any" THEN {0, -1}
    ELSE IF transport = "down" THEN {-1}
    ELSE {0}

Frame(role, type, id) ==
    [ZeroMessage EXCEPT !.role = role, !.type = type, !.id = id]

NoMessage == [err |-> -ENOMSG, msg |-> ZeroMessage]

\* What ocpp_recv can return when the engine is in state q (the state the
\* step is in when it calls ocpp_recv): no message, a transport error, or
\* a frame of any role (NONE stands for a role the engine does not know).
RecvResults(q) ==
    IF transport = "any"
    THEN {NoMessage, [err |-> -EIO, msg |-> ZeroMessage]}
         \cup {[err |-> 0, msg |-> Frame(role, "DataTransfer", id)] :
                 role \in {"CALLRESULT", "CALLERROR"}, id \in ReceivedIds}
         \cup {[err |-> 0, msg |-> Frame("CALL", "DataTransfer", id)] :
                 id \in RequestIds}
         \cup {[err |-> 0, msg |-> Frame("NONE", "DataTransfer", <<1, 1>>)]}
    ELSE IF transport = "callerror" /\ q.wait # << >>
    THEN LET answer == [err |-> 0,
                        msg |-> Frame("CALLERROR", "DataTransfer",
                                      q.pool[Head(q.wait)].id)]
         IN  IF q.calls # << >> THEN {answer} ELSE {answer, NoMessage}
    ELSE {NoMessage}

\* The central-system requests the application answers with push_response.
Requests == {Frame("CALL", "DataTransfer", id) : id \in RequestIds}

\* Types and delays of the deferred requests the application pushes.
DeferTypes == {"DataTransfer", "MeterValues"}
TimerChoices == {0, 2}

\* What ocpp_generate_message_id produces: an id no live message carries
\* (the generator is collision-free); the first such id of GeneratedIds.
FreshIds ==
    LET live == {pool[i].id : i \in Slots}
        free == {k \in 1..Len(GeneratedIds) : GeneratedIds[k] \notin live}
    IN  {GeneratedIds[CHOOSE k \in free : \A j \in free : k <= j]}

\* The engine state e becomes the state of the program.
Commit(e) ==
    /\ pool' = e.pool
    /\ ready' = e.ready
    /\ wait' = e.wait
    /\ timer' = e.timer
    /\ tx_timestamp' = e.tx_timestamp
    /\ rx_timestamp' = e.rx_timestamp
    /\ UNCHANGED <<event_callback, config, transport, conversion>>

\* ------------------------------------------------------------------------
\* Init: the state after ocpp_init(cb, ctx) at time 0 (ocpp.c:704-723)
\* ------------------------------------------------------------------------
InitWith(setups) ==
    /\ pool = [i \in Slots |-> ZeroMessage]
    /\ ready = << >>
    /\ wait = << >>
    /\ timer = << >>
    /\ clock = 0
    /\ tx_timestamp = 0
    /\ rx_timestamp = 0
    /\ \E s \in setups :
        /\ event_callback = s.event_callback
        /\ config = s.config
        /\ transport = s.transport
    /\ pushed = 0
    /\ conversion = NoConversion

Init == InitWith(Setups)

\* ------------------------------------------------------------------------
\* The operations applied to the current state: every call the application
\* can make now, with its arguments and the environment's inputs (in) and
\* its result (e: the engine after the call, with the logs of the call;
\* rc: the value returned)
\* ------------------------------------------------------------------------
PushRequestCalls ==
    {[in |-> [type |-> type, force |-> force],
      out |-> ocpp_push_request(Engine, type, force, gen)] :
        type \in PushTypes, force \in BOOLEAN, gen \in FreshIds}

PushRequestDeferCalls ==
    {[in |-> [type |-> type, timer_sec |-> timer_sec],
      out |-> ocpp_push_request_defer(Engine, type, timer_sec, clock, gen)] :
        type \in DeferTypes, timer_sec \in TimerChoices, gen \in FreshIds}

PushResponseCalls ==
    {[in |-> [req |-> req, err |-> err],
      out |-> ocpp_push_response(Engine, req, err)] :
        req \in Requests, err \in BOOLEAN}

\* The results of the ocpp_send calls of a step are drawn only where the
\* step makes the call: rc1 for the send of process_queued_messages, rc2
\* for the send of process_periodic_messages.
StepCalls ==
    LET l == ocpp_lock(Engine)
        sends1 == process_queued_messages(l, clock, 0).calls # << >>
        after_recv(rc1, rx) ==
            process_incoming_messages(
                process_queued_messages(l, clock, rc1), clock, rx)
        sends2(rc1, rx) ==
            /\ should_send_heartbeat(after_recv(rc1, rx), clock)
            /\ alloc_message(after_recv(rc1, rx)).msg # 0
    IN  UNION {UNION {
            {[in |-> [rc1 |-> rc1, rx |-> rx, rc2 |-> rc2],
              out |-> [e |-> ocpp_step(Engine, clock, rc1, rx, rc2, gen),
                       rc |-> 0]] :
                rc2 \in IF sends2(rc1, rx) THEN SendResults ELSE {0},
                gen \in FreshIds} :
            rx \in RecvResults(process_queued_messages(l, clock, rc1))} :
            rc1 \in IF sends1 THEN SendResults ELSE {0}}

\* ------------------------------------------------------------------------
\* Actions
\* ------------------------------------------------------------------------
\* The clock advances.
Tick ==
    /\ clock < MaxTime
    /\ clock' = clock + 1
    /\ UNCHANGED <<pool, ready, wait, timer, tx_timestamp, rx_timestamp,
                   event_callback, config, transport, pushed, conversion>>

PushRequest ==
    /\ pushed < MaxPushes
    /\ pushed' = pushed + 1
    /\ \E c \in PushRequestCalls : Commit(c.out.e)
    /\ UNCHANGED clock

PushRequestDefer ==
    /\ pushed < MaxPushes
    /\ pushed' = pushed + 1
    /\ \E c \in PushRequestDeferCalls : Commit(c.out.e)
    /\ UNCHANGED clock

PushResponse ==
    /\ pushed < MaxPushes
    /\ pushed' = pushed + 1
    /\ \E c \in PushResponseCalls : Commit(c.out.e)
    /\ UNCHANGED clock

\* A step is taken as long as it sends no message more than MaxSends times.
Step ==
    /\ \E c \in StepCalls :
        /\ \A k \in Slots : c.out.e.pool[k].attempts <= MaxSends
        /\ Commit(c.out.e)
    /\ UNCHANGED <<clock, pushed>>

Next ==
    \/ Tick
    \/ PushRequest
    \/ PushRequestDefer
    \/ PushResponse
    \/ Step

Spec == Init /\ [][Next]_vars

\* The runs over a transport that is down, that is silent, that is either,
\* and that answers every CALL with a CALLERROR; the runs over PushSetups.
SpecDown == InitWith(DownSetups) /\ [][Next]_vars

SpecSilent == InitWith(SilentSetups) /\ [][Next]_vars

SpecQuiet == InitWith(DownSetups \cup SilentSetups) /\ [][Next]_vars

SpecCallError == InitWith(CallErrorSetups) /\ [][Next]_vars

SpecPush == InitWith(PushSetups) /\ [][Next]_vars

\* ------------------------------------------------------------------------
\* Properties
\* ------------------------------------------------------------------------
Range(s) == {s[i] : i \in 1..Len(s)}

\* The MESSAGE_FREE events and the ocpp_send calls of a call c.
FreeEvents(c) ==
    {ev \in Range(c.out.e.events) : ev.kind = OCPP_EVENT_MESSAGE_FREE}

SendCalls(c) == {s \in Range(c.out.e.calls) : s.fn = "ocpp_send"}

\* The positions, in the events of c, of the MESSAGE_FREE events given the
\* message of slot k whose id is id.
FreesOf(c, k, id) ==
    {i \in 1..Len(c.out.e.events) :
        /\ c.out.e.events[i].kind = OCPP_EVENT_MESSAGE_FREE
        /\ c.out.e.events[i].slot = k
        /\ c.out.e.events[i].msg.id = id}

\* The slots whose message of the current state is no longer there after
\* c (a message c creates carries an id of its own).
Freed(c) ==
    {k \in Slots : /\ pool[k].role # "NONE"
                   /\ \/ c.out.e.pool[k].role # pool[k].role
                      \/ c.out.e.pool[k].id # pool[k].id}

PoolFull == \A k \in Slots : pool[k].role # "NONE"

Critical == {"BootNotification", "StartTransaction", "StopTransaction"}

Undroppable(m) == m.type \in Critical \cup {"MeterValues"}

DroppableRequest(m) == m.role = "CALL" /\ ~Undroppable(m)

UndroppableRequest(m) == m.role = "CALL" /\ Undroppable(m)

\* C1: after any sequence of push_request, push_request_defer,
\* push_response and step calls, whatever the sends return and whatever is
\* received, the wait list holds at most one message.
C1_WaitHoldsAtMostOne == Len(wait) <= 1

\* A message waits while another one is ready to be sent.
C1_Witness == Len(wait) = 1 /\ ready # << >> /\ transport = "any"

\* C2: ocpp_send is never called while the wait list is non-empty: every
\* call of ocpp_send a step makes, for a queued message or for a Heartbeat
\* the step creates, finds the wait list empty (the message that waited has
\* been matched by a response, moved back to ready by the timeout sweep, or
\* freed); the push calls never send.
C2_SendFindsWaitEmpty ==
    /\ \A c \in StepCalls : \A s \in SendCalls(c) : s.waiting = 0
    /\ \A c \in PushRequestCalls \cup PushRequestDeferCalls
                \cup PushResponseCalls : SendCalls(c) = {}

\* A message waits, another is ready, and a step sends one: the sweep of
\* that step has emptied the wait list first.
C2_Witness ==
    /\ wait # << >>
    /\ ready # << >>
    /\ \E c \in StepCalls : SendCalls(c) # {}

\* C3: a BootNotification, StartTransaction, StopTransaction or MeterValues
\* request is never freed by attempt-count exhaustion.  Over a transport on
\* which every send fails, or every send succeeds and nothing is ever
\* received, a step fires no MESSAGE_FREE for such a request and leaves it
\* in the pool, its attempts never decreasing; a request that is in the
\* ready or the wait list is in one of the two after the step, and one
\* whose delay has not elapsed is in the timer, ready or wait list.
C3_UndroppableNeverExhausted ==
    transport \in {"down", "silent"} =>
        \A c \in StepCalls : \A k \in Slots :
            UndroppableRequest(pool[k]) =>
                LET o == c.out.e
                IN  /\ FreesOf(c, k, pool[k].id) = {}
                    /\ k \notin Freed(c)
                    /\ o.pool[k].id = pool[k].id
                    /\ o.pool[k].type = pool[k].type
                    /\ o.pool[k].role = "CALL"
                    /\ o.pool[k].attempts >= pool[k].attempts
                    /\ k \in Range(ready) \cup Range(wait)
                        => k \in Range(o.ready) \cup Range(o.wait)
                    /\ k \in Range(o.ready) \cup Range(o.wait)
                             \cup Range(o.timer)

\* Such a request has been sent more often than OCPP_DEFAULT_TX_RETRIES
\* allows a droppable one, and a step is taken with it.
C3_Witness ==
    /\ transport \in {"down", "silent"}
    /\ \E k \in Slots :
        /\ UndroppableRequest(pool[k])
        /\ pool[k].attempts > config.OCPP_DEFAULT_TX_RETRIES
        /\ pool[k].h_sends = pool[k].attempts
        /\ k \in Range(wait)
        /\ pool[k].expiry <= clock
    /\ StepCalls # {}

\* The first message of the ready list remove_oldest does not pass over
\* (0: none).
FirstEligible ==
    LET hits == {i \in 1..Len(ready) : pool[ready[i]].type \notin Critical}
    IN  IF hits = {} THEN 0
        ELSE ready[CHOOSE i \in hits : \A j \in hits : i <= j]

\* C4 as stated: a push_request with force = true on a full pool never
\* frees a BootNotification, StartTransaction, StopTransaction or
\* MeterValues message.
C4_ForcedPushFreesNoUndroppable ==
    PoolFull =>
        \A c \in PushRequestCalls :
            c.in.force =>
                /\ \A k \in Freed(c) : ~Undroppable(pool[k])
                /\ \A ev \in FreeEvents(c) : ~Undroppable(ev.msg)

\* C4, amended: a push_request with force = true on a full pool never
\* frees a BootNotification, StartTransaction or StopTransaction message;
\* a MeterValues message is not protected: it is freed when it is the
\* first message of the ready list of another type than these three.
C4_ForcedPushFreesNoCritical ==
    PoolFull =>
        \A c \in PushRequestCalls :
            c.in.force =>
                /\ \A k \in Freed(c) : pool[k].type \notin Critical
                /\ \A ev \in FreeEvents(c) : ev.msg.type \notin Critical
                /\ (FirstEligible # 0
                     /\ pool[FirstEligible].type = "MeterValues")
                    => Freed(c) = {FirstEligible}

\* The pool is full, and the ready list holds a StartTransaction followed
\* by a MeterValues.
C4_Witness ==
    /\ PoolFull
    /\ Len(ready) >= 2
    /\ pool[ready[1]].type \in Critical
    /\ FirstEligible # 0
    /\ pool[FirstEligible].type = "MeterValues"
    /\ \E c \in PushRequestCalls : c.in.force /\ Freed(c) # {}

\* C5: forced eviction never frees a BootNotification, StartTransaction or
\* StopTransaction message: no push_request frees one, and when the pool is
\* full and every message of the ready list has one of these three types,
\* push_request with force = true returns -ENOMEM, fires no event and
\* leaves the pool and the three lists as they are.
C5_NothingEligibleIsOutOfMemory ==
    \A c \in PushRequestCalls :
        /\ \A k \in Freed(c) : pool[k].type \notin Critical
        /\ (c.in.force /\ PoolFull /\ FirstEligible = 0) =>
            /\ c.out.rc = -ENOMEM
            /\ c.out.e.events = << >>
            /\ c.out.e.pool = pool
            /\ c.out.e.ready = ready
            /\ c.out.e.wait = wait
            /\ c.out.e.timer = timer

\* The pool is full, the ready list is not empty and holds only messages
\* of the three types, and a push_request with force = true returns.
C5_Witness ==
    /\ PoolFull
    /\ Len(ready) >= 2
    /\ FirstEligible = 0
    /\ \E c \in PushRequestCalls : c.in.force /\ c.out.rc = -ENOMEM

\* C6: on a full pool, push_request with force = false returns -ENOMEM and
\* changes nothing; push_request with force = true, when the ready list
\* holds a message of another type than BootNotification, StartTransaction
\* and StopTransaction, returns 0, frees exactly one message (one
\* MESSAGE_FREE event, given that message), the one closest to the head of
\* the ready list among those, and appends the new request at the tail of
\* the ready list.
C6_ForcedPushEvictsOldestEligible ==
    PoolFull =>
        \A c \in PushRequestCalls :
            LET o == c.out.e
                first == FirstEligible
            IN  /\ ~c.in.force =>
                    /\ c.out.rc = -ENOMEM
                    /\ o.pool = pool /\ o.ready = ready
                    /\ o.wait = wait /\ o.timer = timer
                    /\ o.events = << >>
                /\ (c.in.force /\ first # 0) =>
                    /\ c.out.rc = 0
                    /\ Freed(c) = {first}
                    /\ event_callback =>
                        /\ Len(o.events) = 1
                        /\ o.events[1].kind = OCPP_EVENT_MESSAGE_FREE
                        /\ o.events[1].msg = pool[first]
                    /\ Len(o.ready) = Len(ready)
                    /\ SubSeq(o.ready, 1, Len(ready) - 1)
                           = SelectSeq(ready, LAMBDA x : x # first)
                    /\ LET new == o.ready[Len(o.ready)]
                       IN  /\ o.pool[new].role = "CALL"
                           /\ o.pool[new].type = c.in.type
                           /\ o.pool[new].id
                                  \notin {pool[k].id : k \in Slots}
                           /\ \A k \in Slots \ {new, first} :
                                  o.pool[k] = pool[k]
                    /\ o.wait = wait /\ o.timer = timer

\* The pool is full and the head of the ready list is a message forced
\* eviction passes over, with an eligible one behind it; both kinds of
\* push_request return.
C6_Witness ==
    /\ PoolFull
    /\ Len(ready) >= 2
    /\ pool[ready[1]].type \in Critical
    /\ FirstEligible # 0
    /\ \E c \in PushRequestCalls : c.in.force /\ c.out.rc = 0
    /\ \E c \in PushRequestCalls : ~c.in.force /\ c.out.rc = -ENOMEM

\* The positions, in the calls of c, of the ocpp_send calls passed the
\* message of slot k whose id is id.
SendsOf(c, k, id) ==
    {i \in 1..Len(c.out.e.calls) :
        /\ c.out.e.calls[i].fn = "ocpp_send"
        /\ c.out.e.calls[i].slot = k
        /\ c.out.e.calls[i].msg.id = id}

\* C7: over a transport on which every send fails, a droppable request (a
\* request of another type than BootNotification, StartTransaction,
\* StopTransaction and MeterValues) is passed to ocpp_send exactly
\* OCPP_DEFAULT_TX_RETRIES times, two consecutive sends being at least
\* OCPP_DEFAULT_TX_TIMEOUT_SEC apart, and MESSAGE_FREE fires for it exactly
\* once, in the step of the OCPP_DEFAULT_TX_RETRIES-th failed send and not
\* earlier: every send of a step finds fewer than that many sends made,
\* the step fires one MESSAGE_FREE for the message when the send is the
\* last of them and none otherwise, every MESSAGE_FREE of a step follows
\* such a send, and no such request is left with that many sends made.
C7_FailedSendsDropAtLastAttempt ==
    transport = "down" =>
        \A c \in StepCalls :
            LET o == c.out.e
                R == config.OCPP_DEFAULT_TX_RETRIES
            IN  /\ \A s \in SendCalls(c) :
                    DroppableRequest(s.msg) =>
                        /\ s.rc # 0
                        /\ s.msg.h_sends < R
                        /\ s.prev_sent_at # -1 =>
                            s.now - s.prev_sent_at
                                >= OCPP_DEFAULT_TX_TIMEOUT_SEC
                        /\ Cardinality(SendsOf(c, s.slot, s.msg.id)) = 1
                        /\ Cardinality(FreesOf(c, s.slot, s.msg.id))
                            = IF s.msg.h_sends + 1 = R THEN 1 ELSE 0
                        /\ s.msg.h_sends + 1 < R
                            => /\ o.pool[s.slot].id = s.msg.id
                               /\ s.slot \in Range(o.wait)
                /\ \A ev \in FreeEvents(c) :
                    DroppableRequest(ev.msg) =>
                        /\ ev.cause = "send"
                        /\ ev.msg.h_sends = R
                        /\ ev.msg.h_sent_at = clock
                        /\ SendsOf(c, ev.slot, ev.msg.id) # {}
                /\ \A k \in Slots :
                    /\ DroppableRequest(o.pool[k]) => o.pool[k].h_sends < R
                    /\ DroppableRequest(pool[k]) => pool[k].h_sends < R

\* With OCPP_DEFAULT_TX_RETRIES = 2, a step makes the second failed send of
\* a droppable request, later than the first, and frees it.
C7_Witness ==
    /\ transport = "down"
    /\ config.OCPP_DEFAULT_TX_RETRIES = 2
    /\ \E c \in StepCalls : \E ev \in FreeEvents(c) :
        /\ DroppableRequest(ev.msg)
        /\ ev.msg.h_sends = 2
        /\ \E s \in SendCalls(c) :
            /\ s.slot = ev.slot
            /\ s.msg.id = ev.msg.id
            /\ s.prev_sent_at >= 0

\* C8: over a transport on which every send succeeds and nothing is ever
\* received, a droppable request is passed to ocpp_send exactly
\* OCPP_DEFAULT_TX_RETRIES times and is freed (one MESSAGE_FREE, no further
\* send of it) by the timeout sweep of the first step whose time is at
\* least OCPP_DEFAULT_TX_TIMEOUT_SEC after the last of these sends: a step
\* sends it only while fewer sends have been made, every MESSAGE_FREE for
\* it comes from the sweep, after that many sends and that long after the
\* last, and a step taken that long after the last send frees it, while an
\* earlier step leaves it waiting.
C8_UnansweredDropAtSweep ==
    transport = "silent" =>
        \A c \in StepCalls :
            LET o == c.out.e
                R == config.OCPP_DEFAULT_TX_RETRIES
                T == OCPP_DEFAULT_TX_TIMEOUT_SEC
            IN  /\ \A s \in SendCalls(c) :
                    DroppableRequest(s.msg) =>
                        /\ s.rc = 0
                        /\ s.msg.h_sends < R
                        /\ FreesOf(c, s.slot, s.msg.id) = {}
                        /\ s.slot \in Range(o.wait)
                /\ \A ev \in FreeEvents(c) :
                    DroppableRequest(ev.msg) =>
                        /\ ev.cause = "timeout"
                        /\ ev.msg.h_sends = R
                        /\ clock >= ev.msg.h_sent_at + T
                        /\ SendsOf(c, ev.slot, ev.msg.id) = {}
                /\ \A k \in Slots :
                    (DroppableRequest(pool[k]) /\ pool[k].h_sends >= R) =>
                        /\ pool[k].h_sends = R
                        /\ k \in Range(wait)
                        /\ SendsOf(c, k, pool[k].id) = {}
                        /\ IF clock >= pool[k].h_sent_at + T
                           THEN /\ k \in Freed(c)
                                /\ event_callback =>
                                    Cardinality(FreesOf(c, k, pool[k].id)) = 1
                           ELSE /\ k \notin Freed(c)
                                /\ k \in Range(o.wait)
                                /\ FreesOf(c, k, pool[k].id) = {}

\* With OCPP_DEFAULT_TX_RETRIES = 2, the sweep of a step frees a droppable
\* request that has been sent twice.
C8_Witness ==
    /\ transport = "silent"
    /\ config.OCPP_DEFAULT_TX_RETRIES = 2
    /\ \E c \in StepCalls : \E ev \in FreeEvents(c) :
        /\ DroppableRequest(ev.msg)
        /\ ev.cause = "timeout"
        /\ ev.msg.h_sends = 2

\* The first send of a DataTransfer request fails in a step at time 0 of a
\* build with OCPP_DEFAULT_TX_RETRIES = 1.
FirstSendFails(c, s) ==
    /\ transport = "down"
    /\ config.OCPP_DEFAULT_TX_RETRIES = 1
    /\ clock = 0
    /\ s \in SendCalls(c)
    /\ s.msg.role = "CALL"
    /\ s.msg.type = "DataTransfer"
    /\ s.msg.h_sends = 0
    /\ s.rc # 0

\* C9 as stated: with OCPP_DEFAULT_TX_RETRIES = 1, a DataTransfer request
\* whose first send fails in the step at time 0 is put in the wait list
\* with no MESSAGE_FREE in that step (to be freed by the sweep of the step
\* at time OCPP_DEFAULT_TX_TIMEOUT_SEC).
C9_FailedSendWaitsForSweep ==
    \A c \in StepCalls : \A s \in SendCalls(c) :
        FirstSendFails(c, s) =>
            /\ FreesOf(c, s.slot, s.msg.id) = {}
            /\ s.slot \in Range(c.out.e.wait)
            /\ c.out.e.pool[s.slot].id = s.msg.id

\* C9, amended: with OCPP_DEFAULT_TX_RETRIES = 1, a DataTransfer request
\* whose first send fails in the step at time 0 is freed in that step, by
\* send_message: the step fires one MESSAGE_FREE for it, and after the step
\* its slot is zeroed and in none of the lists, so that nothing of it is
\* left for the sweep of a later step.
C9_FailedSendFreesAtOnce ==
    \A c \in StepCalls : \A s \in SendCalls(c) :
        FirstSendFails(c, s) =>
            LET o == c.out.e
                frees == FreesOf(c, s.slot, s.msg.id)
            IN  /\ Cardinality(frees) = 1
                /\ \A i \in frees : o.events[i].cause = "send"
                /\ o.pool[s.slot] = ZeroMessage
                /\ s.slot \notin Range(o.wait) \cup Range(o.ready)
                                  \cup Range(o.timer)

\* At time 0, with OCPP_DEFAULT_TX_RETRIES = 1, a DataTransfer request is
\* at the head of the ready list, and the step sends it and the send fails.
C9_Witness ==
    /\ ready # << >>
    /\ pool[Head(ready)].type = "DataTransfer"
    /\ \E c \in StepCalls : \E s \in SendCalls(c) :
        FirstSendFails(c, s) /\ s.slot = Head(ready)

\* A request of one of the three transaction-related types.
TransactionRequest(m) ==
    /\ m.role = "CALL"
    /\ m.type \in {"StartTransaction", "StopTransaction", "MeterValues"}

\* C10: over a transport on which every send succeeds and is answered by
\* a CALLERROR with the id of the request, a transaction-related request is
\* passed to ocpp_send exactly TransactionMessageAttempts times, and
\* MESSAGE_FREE fires for it on the CALLERROR that answers the last of
\* these sends and on no earlier one: a step sends it only while fewer
\* sends have been made, its send is answered in the same step, a
\* CALLERROR that finds fewer sends made leaves it waiting with no
\* MESSAGE_FREE, one that finds that many made frees it with one
\* MESSAGE_FREE, and no MESSAGE_FREE fires for it otherwise.
C10_CallErrorDropsAtLastAttempt ==
    transport = "callerror" =>
        \A c \in StepCalls :
            LET o == c.out.e
                A == config.TransactionMessageAttempts
                rx == c.in.rx
                answered(k, id) ==
                    /\ rx.err = 0
                    /\ rx.msg.role = "CALLERROR"
                    /\ rx.msg.id = id
            IN  /\ \A s \in SendCalls(c) :
                    TransactionRequest(s.msg) =>
                        /\ s.rc = 0
                        /\ s.msg.h_sends < A
                        /\ answered(s.slot, s.msg.id)
                        /\ Cardinality(FreesOf(c, s.slot, s.msg.id))
                            = IF s.msg.h_sends + 1 = A THEN 1 ELSE 0
                        /\ s.msg.h_sends + 1 < A
                            => /\ s.slot \in Range(o.wait)
                               /\ o.pool[s.slot].id = s.msg.id
                               /\ o.pool[s.slot].h_sends = s.msg.h_sends + 1
                /\ \A ev \in FreeEvents(c) :
                    TransactionRequest(ev.msg) =>
                        /\ ev.cause = "response"
                        /\ ev.msg.h_sends = A
                        /\ answered(ev.slot, ev.msg.id)
                /\ \A k \in Slots :
                    TransactionRequest(pool[k]) =>
                        /\ pool[k].h_sends < A
                        /\ (k \in Range(wait) /\ answered(k, pool[k].id)
                             /\ SendsOf(c, k, pool[k].id) = {})
                            => /\ k \notin Freed(c)
                               /\ k \in Range(o.wait)
                               /\ FreesOf(c, k, pool[k].id) = {}

\* With TransactionMessageAttempts = 3, a step sends a transaction-related
\* request for the third time and frees it on the CALLERROR.
C10_Witness ==
    /\ transport = "callerror"
    /\ config.TransactionMessageAttempts = 3
    /\ \E c \in StepCalls : \E ev \in FreeEvents(c) :
        /\ TransactionRequest(ev.msg)
        /\ ev.cause = "response"
        /\ ev.msg.h_sends = 3


\* ------------------------------------------------------------------------
\* Heartbeats (ocpp.c:250-264, ocpp.c:375-389)
\* ------------------------------------------------------------------------
\* The engine as the heartbeat stage of the step c finds it: after the
\* queue stage and the ingress stage of that step.
HeartbeatStage(c) ==
    process_incoming_messages(
        process_queued_messages(ocpp_lock(Engine), clock, c.in.rc1),
        clock, c.in.rx)

\* The ocpp_send calls of c that are given a Heartbeat CALL the step has
\* just allocated (it has not been sent before and no slot held it).
HeartbeatSends(c) ==
    {s \in SendCalls(c) :
        /\ s.msg.type = "Heartbeat"
        /\ s.msg.role = "CALL"
        /\ s.msg.h_sends = 0
        /\ \A k \in Slots : pool[k].id # s.msg.id}

\* The Heartbeat CALLs the step c creates: those it sends, and those it
\* leaves in the pool.
HeartbeatsMade(c) ==
    {s.msg.id : s \in HeartbeatSends(c)}
    \cup {c.out.e.pool[k].id : k \in
            {j \in Slots : /\ c.out.e.pool[j].type = "Heartbeat"
                           /\ c.out.e.pool[j].role = "CALL"
                           /\ \A i \in Slots : pool[i].id # c.out.e.pool[j].id}}

C12_HeartbeatOnlyWhenIdleAndDue ==
    \A c \in StepCalls :
        HeartbeatsMade(c) # {}
        => LET h == HeartbeatStage(c)
           IN  /\ config.HeartbeatInterval # 0
               /\ h.ready = << >>
               /\ h.wait = << >>
               /\ clock - h.tx_timestamp >= config.HeartbeatInterval

\* A step that begins with a message in flight, drops it in its sweep and
\* then, idle and due, creates a Heartbeat.
C12_Witness ==
    \E c \in StepCalls :
        /\ wait # << >>
        /\ HeartbeatsMade(c) # {}
        /\ HeartbeatStage(c).wait = << >>


\* C13: no Heartbeat is sent in a step whose time is less than
\* HeartbeatInterval after the most recent successfully received frame
\* (last_rx_timestamp), even when HeartbeatInterval or more has elapsed
\* since last_tx_timestamp: a Heartbeat is due only HeartbeatInterval
\* after the later of the two timestamps.
C13_NoHeartbeatSoonAfterReceive ==
    \A c \in StepCalls :
        HeartbeatSends(c) # {}
        => clock - HeartbeatStage(c).rx_timestamp >= config.HeartbeatInterval

\* C14: after ocpp_init, as long as no BootNotification has been answered
\* by a CALLRESULT, a step sends no Heartbeat, even HeartbeatInterval or
\* more after ocpp_init with every list empty.  Stated over the states in
\* which the application has pushed nothing yet, where no BootNotification
\* exists at all.
C14_NoHeartbeatBeforeBootAccepted ==
    pushed = 0
    => \A c \in StepCalls :
        \A s \in SendCalls(c) : s.msg.type # "Heartbeat"


\* ------------------------------------------------------------------------
\* Time without bound
\* ------------------------------------------------------------------------
\* The engine reads the clock only to compare it with an expiry
\* (expiry <= now) or with last_tx_timestamp (now - timestamp >= interval)
\* and to set an expiry or a timestamp from it.  Once the clock shows
\* MaxTime, a second that passes is therefore the same as every recorded
\* time moving one second into the past, a time already at 0 staying there
\* (0 <= now, and now - 0 is at least every interval of the setups).
Earlier(t) == IF t > 0 THEN t - 1 ELSE t

TickShifted ==
    /\ clock = MaxTime
    /\ pool' = [k \in Slots |->
                  [pool[k] EXCEPT !.expiry = Earlier(@),
                                  !.h_sent_at = Earlier(@)]]
    /\ tx_timestamp' = Earlier(tx_timestamp)
    /\ rx_timestamp' = Earlier(rx_timestamp)
    /\ UNCHANGED <<ready, wait, timer, clock, event_callback, config,
                   transport, pushed, conversion>>

NextLive ==
    \/ Tick
    \/ TickShifted
    \/ PushRequest
    \/ PushRequestDefer
    \/ PushResponse
    \/ Step

\* The runs in which time keeps passing and the application keeps calling
\* ocpp_step (again and again a call of it changes the engine), over a
\* central system that answers with CALLERRORs.
SpecLive ==
    /\ InitWith(CallErrorSetups)
    /\ [][NextLive]_vars
    /\ WF_vars(Tick)
    /\ WF_vars(TickShifted)
    /\ []<><<Step>>_vars

\* Slot k holds a message of a droppable type whose id is id.
HoldsDroppable(k, id) ==
    /\ pool[k].role # "NONE"
    /\ pool[k].id = id
    /\ ~Undroppable(pool[k])

\* C15: under repeated ocpp_step calls with time advancing without bound,
\* every message of a droppable type (not BootNotification,
\* StartTransaction, StopTransaction, MeterValues) that is in the pool (it
\* was put in the ready or the timer list) is eventually freed, whatever
\* the sends return, whatever is received and whatever undroppable
\* requests are queued or retried beside it.
C15_DroppableEventuallyFreed ==
    \A k \in Slots : \A id \in Range(GeneratedIds) :
        HoldsDroppable(k, id) ~> ~HoldsDroppable(k, id)


\* ------------------------------------------------------------------------
\* The pool and the lists
\* ------------------------------------------------------------------------
\* How many times slot k is in the list s.
Occurrences(s, k) == Cardinality({i \in 1..Len(s) : s[i] = k})

\* C16: between the calls of the public API each pool slot is in exactly
\* one of free, ready, wait, timer, and it is free exactly when its role is
\* NONE; so ocpp_count_pending_requests() = |ready| + |wait| + |timer| =
\* the number of slots whose role is not NONE <= the size of the pool.
C16_EachSlotInOnePlace ==
    /\ \A k \in Slots :
        /\ pool[k].role \in {"NONE", "CALL", "CALLRESULT", "CALLERROR"}
        /\ Occurrences(ready, k) + Occurrences(wait, k)
               + Occurrences(timer, k)
           = IF pool[k].role = "NONE" THEN 0 ELSE 1
    /\ Range(ready) \cup Range(wait) \cup Range(timer) \subseteq Slots
    /\ ocpp_count_pending_requests(Engine)
       = Len(ready) + Len(wait) + Len(timer)
    /\ ocpp_count_pending_requests(Engine)
       = Cardinality({k \in Slots : pool[k].role # "NONE"})
    /\ ocpp_count_pending_requests(Engine) <= OCPP_TX_POOL_LEN

\* The pool is full with one message in flight and one deferred.
C16_Witness ==
    /\ ocpp_count_pending_requests(Engine) = OCPP_TX_POOL_LEN
    /\ wait # << >>
    /\ timer # << >>


\* C17 as stated: after any sequence of ocpp_push_request,
\* ocpp_push_request_defer, ocpp_push_response and ocpp_step calls, no two
\* live pool slots (role not NONE) have the same id.
C17_LiveIdsDiffer ==
    \A j, k \in Slots :
        (j # k /\ pool[j].role # "NONE" /\ pool[k].role # "NONE")
        => pool[j].id # pool[k].id

\* C17, amended: no two live requests (role CALL) have the same id; a
\* response carries the id of the central-system request it answers,
\* whatever the pool holds.
C17_LiveRequestIdsDiffer ==
    \A j, k \in Slots :
        (j # k /\ pool[j].role = "CALL" /\ pool[k].role = "CALL")
        => pool[j].id # pool[k].id

\* The pool is full of requests, one of them with an id the generator
\* gave out while the two ids before it were live.
C17_Witness ==
    /\ \A k \in Slots : pool[k].role = "CALL"
    /\ \E k \in Slots : pool[k].id # GeneratedIds[1] /\ pool[k].id # GeneratedIds[2]


\* ------------------------------------------------------------------------
\* Deferred requests (ocpp.c:391-411, ocpp.c:653-671)
\* ------------------------------------------------------------------------
\* The slot of the message a push call c has created (0: none).
Pushed(c) ==
    IF c.out.rc # 0 THEN 0
    ELSE CHOOSE k \in Slots :
            /\ pool[k].role = "NONE"
            /\ c.out.e.pool[k].role # "NONE"

\* The messages of the timer list that are due, in the order of the list.
Due == SelectSeq(timer, LAMBDA k : pool[k].expiry <= clock)

\* C18: a request pushed with ocpp_push_request_defer(timer_sec > 0) at
\* time t is put in the timer list with expiry t + timer_sec; it is never
\* passed to ocpp_send by a step whose time is below that expiry; the first
\* step whose time is >= the expiry moves it to the tail of the ready list.
\* With timer_sec = 0 it is put directly at the tail of the ready list.
C18_DeferredWaitsForItsTime ==
    /\ \A c \in PushRequestDeferCalls :
        c.out.rc = 0 =>
            LET k == Pushed(c)
                o == c.out.e
            IN  /\ o.pool[k].role = "CALL"
                /\ o.pool[k].type = c.in.type
                /\ o.wait = wait
                /\ IF c.in.timer_sec > 0
                   THEN /\ o.timer = Append(timer, k)
                        /\ o.ready = ready
                        /\ o.pool[k].expiry = clock + c.in.timer_sec
                   ELSE /\ o.ready = Append(ready, k)
                        /\ o.timer = timer
    /\ \A c \in StepCalls :
        LET o == c.out.e
            n == Len(Due)
        IN  /\ \A k \in Range(timer) :
                /\ SendsOf(c, k, pool[k].id) = {}
                /\ o.pool[k] = pool[k]
                /\ pool[k].expiry > clock
                    => k \in Range(o.timer) /\ k \notin Range(o.ready)
                /\ pool[k].expiry <= clock
                    => k \in Range(o.ready) /\ k \notin Range(o.timer)
            /\ Len(o.ready) >= n
            /\ SubSeq(o.ready, Len(o.ready) - n + 1, Len(o.ready)) = Due
            /\ \A s \in SendCalls(c) :
                (s.msg.h_sends = 0 /\ pool[s.slot].id = s.msg.id
                 /\ pool[s.slot].role # "NONE")
                => /\ s.slot \in Range(ready)
                   /\ pool[s.slot].expiry <= clock

\* A step at the very second a deferred request is due, with another
\* message in flight, leaves the request last in the ready list, unsent.
C18_Witness ==
    \E c \in StepCalls : \E k \in Range(timer) :
        /\ pool[k].expiry = clock
        /\ clock > 0
        /\ wait # << >>
        /\ c.out.e.ready # << >>
        /\ c.out.e.ready[Len(c.out.e.ready)] = k
        /\ c.out.e.pool[k].h_sends = 0


\* ------------------------------------------------------------------------
\* The lock (ocpp.c:146-154, ocpp.c:297-324, ocpp.c:445-456)
\* ------------------------------------------------------------------------
\* C19: the event callback is always called with the engine lock released,
\* and the lock is taken again when it returns, for every kind of event
\* (MESSAGE_INCOMING, MESSAGE_FREE, negative error codes) raised from
\* ocpp_step or from ocpp_push_request.  The lock taken again shows in the
\* ocpp_send that follows the MESSAGE_FREE events of the sweep.
C19_CallbackRunsUnlocked ==
    /\ \A c \in StepCalls \cup PushRequestCalls :
        /\ \A ev \in Range(c.out.e.events) : ~ev.locked
        /\ ~c.out.e.locked
    /\ \A c \in StepCalls :
        (\E ev \in FreeEvents(c) : ev.cause = "timeout")
        => \A s \in SendCalls(c) : s.locked
    /\ \A kind \in {OCPP_EVENT_MESSAGE_INCOMING, OCPP_EVENT_MESSAGE_FREE,
                    -ENOLINK, -EINVAL, -EIO} :
        LET d == dispatch_event(ocpp_lock(Engine), kind, ZeroMessage, 0,
                                "incoming")
        IN  /\ d.locked
            /\ event_callback
                => Len(d.events) = 1 /\ ~d.events[1].locked

\* The pool is full: a forced push evicts with MESSAGE_FREE, and a step
\* drops a message in its sweep (MESSAGE_FREE), sends the next one and
\* reports a response nobody waits for (a negative error code).
C19_Witness ==
    /\ \E c \in PushRequestCalls :
        \E ev \in FreeEvents(c) : ev.cause = "evict"
    /\ \E c \in StepCalls :
        /\ \E ev \in FreeEvents(c) : ev.cause = "timeout"
        /\ SendCalls(c) # {}
        /\ \E ev \in Range(c.out.e.events) :
            ev.cause = "incoming" /\ ev.kind < 0


\* C20: the engine lock is not held during any call of ocpp_send or
\* ocpp_recv made by ocpp_step: it is released before the call and taken
\* again after it.
C20_TransportCalledUnlocked ==
    \A c \in StepCalls :
        /\ \A call \in Range(c.out.e.calls) : ~call.locked
        /\ ~c.out.e.locked


\* ------------------------------------------------------------------------
\* The type registry (ocpp.c:530-598)
\* ------------------------------------------------------------------------
\* The enumerators of ocpp_message_t in the order of their values, the
\* first having the value 0; OCPP_MSG_MAX is the enumerator after the last.
\* The enum is declared in a header of the repository that is not among
\* the sources at hand: it is taken to hold the actions of the action set,
\* in the order the table of get_typestr_array designates them.
ocpp_message_t ==
    << "OCPP_MSG_AUTHORIZE", "OCPP_MSG_BOOTNOTIFICATION",
       "OCPP_MSG_CHANGE_AVAILABILITY", "OCPP_MSG_CHANGE_CONFIGURATION",
       "OCPP_MSG_CLEAR_CACHE", "OCPP_MSG_DATA_TRANSFER",
       "OCPP_MSG_GET_CONFIGURATION", "OCPP_MSG_HEARTBEAT",
       "OCPP_MSG_METER_VALUES", "OCPP_MSG_REMOTE_START_TRANSACTION",
       "OCPP_MSG_REMOTE_STOP_TRANSACTION", "OCPP_MSG_RESET",
       "OCPP_MSG_START_TRANSACTION", "OCPP_MSG_STATUS_NOTIFICATION",
       "OCPP_MSG_STOP_TRANSACTION", "OCPP_MSG_UNLOCK_CONNECTOR",
       "OCPP_MSG_DIAGNOSTICS_NOTIFICATION",
       "OCPP_MSG_FIRMWARE_NOTIFICATION", "OCPP_MSG_GET_DIAGNOSTICS",
       "OCPP_MSG_UPDATE_FIRMWARE", "OCPP_MSG_GET_LOCAL_LIST_VERSION",
       "OCPP_MSG_SEND_LOCAL_LIST", "OCPP_MSG_CANCEL_RESERVATION",
       "OCPP_MSG_RESERVE_NOW", "OCPP_MSG_CLEAR_CHARGING_PROFILE",
       "OCPP_MSG_GET_COMPOSITE_SCHEDULE", "OCPP_MSG_SET_CHARGING_PROFILE",
       "OCPP_MSG_TRIGGER_MESSAGE", "OCPP_MSG_CERTIFICATE_SIGNED",
       "OCPP_MSG_DELETE_CERTIFICATE", "OCPP_MSG_EXTENDED_TRIGGER_MESSAGE",
       "OCPP_MSG_GET_INSTALLED_CERTIFICATE_IDS", "OCPP_MSG_GET_LOG",
       "OCPP_MSG_INSTALL_CERTIFICATE", "OCPP_MSG_LOG_STATUS_NOTIFICATION",
       "OCPP_MSG_SECURITY_EVENT_NOTIFICATION", "OCPP_MSG_SIGN_CERTIFICATE",
       "OCPP_MSG_SIGNED_FIRMWARE_STATUS_NOTIFICATION",
       "OCPP_MSG_SIGNED_UPDATE_FIRMWARE" >>

OCPP_MSG_MAX == Len(ocpp_message_t)

\* The value of an enumerator.
EnumValue(name) ==
    (CHOOSE i \in 1..Len(ocpp_message_t) : ocpp_message_t[i] = name) - 1

\* The designated initializers of msgstr, in the order of the source.
msgstr_initializers ==
    << <<"OCPP_MSG_AUTHORIZE", "Authorize">>,
       <<"OCPP_MSG_BOOTNOTIFICATION", "BootNotification">>,
       <<"OCPP_MSG_CHANGE_AVAILABILITY", "ChangeAvailability">>,
       <<"OCPP_MSG_CHANGE_CONFIGURATION", "ChangeConfiguration">>,
       <<"OCPP_MSG_CLEAR_CACHE", "ClearCache">>,
       <<"OCPP_MSG_DATA_TRANSFER", "DataTransfer">>,
       <<"OCPP_MSG_GET_CONFIGURATION", "GetConfiguration">>,
       <<"OCPP_MSG_HEARTBEAT", "Heartbeat">>,
       <<"OCPP_MSG_METER_VALUES", "MeterValues">>,
       <<"OCPP_MSG_REMOTE_START_TRANSACTION", "RemoteStartTransaction">>,
       <<"OCPP_MSG_REMOTE_STOP_TRANSACTION", "RemoteStopTransaction">>,
       <<"OCPP_MSG_RESET", "Reset">>,
       <<"OCPP_MSG_START_TRANSACTION", "StartTransaction">>,
       <<"OCPP_MSG_STATUS_NOTIFICATION", "StatusNotification">>,
       <<"OCPP_MSG_STOP_TRANSACTION", "StopTransaction">>,
       <<"OCPP_MSG_UNLOCK_CONNECTOR", "UnlockConnector">>,
       <<"OCPP_MSG_DIAGNOSTICS_NOTIFICATION", "DiagnosticsStatusNotification">>,
       <<"OCPP_MSG_FIRMWARE_NOTIFICATION", "FirmwareStatusNotification">>,
       <<"OCPP_MSG_GET_DIAGNOSTICS", "GetDiagnostics">>,
       <<"OCPP_MSG_UPDATE_FIRMWARE", "UpdateFirmware">>,
       <<"OCPP_MSG_GET_LOCAL_LIST_VERSION", "GetLocalListVersion">>,
       <<"OCPP_MSG_SEND_LOCAL_LIST", "SendLocalList">>,
       <<"OCPP_MSG_CANCEL_RESERVATION", "CancelReservation">>,
       <<"OCPP_MSG_RESERVE_NOW", "ReserveNow">>,
       <<"OCPP_MSG_CLEAR_CHARGING_PROFILE", "ClearChargingProfile">>,
       <<"OCPP_MSG_GET_COMPOSITE_SCHEDULE", "GetCompositeSchedule">>,
       <<"OCPP_MSG_SET_CHARGING_PROFILE", "SetChargingProfile">>,
       <<"OCPP_MSG_TRIGGER_MESSAGE", "TriggerMessage">>,
       <<"OCPP_MSG_CERTIFICATE_SIGNED", "CertificateSigned">>,
       <<"OCPP_MSG_DELETE_CERTIFICATE", "DeleteCertificate">>,
       <<"OCPP_MSG_EXTENDED_TRIGGER_MESSAGE", "ExtendedTriggerMessage">>,
       <<"OCPP_MSG_GET_INSTALLED_CERTIFICATE_IDS", "GetInstalledCertificateIds">>,
       <<"OCPP_MSG_GET_LOG", "GetLog">>,
       <<"OCPP_MSG_INSTALL_CERTIFICATE", "InstallCertificate">>,
       <<"OCPP_MSG_LOG_STATUS_NOTIFICATION", "LogStatusNotification">>,
       <<"OCPP_MSG_SECURITY_EVENT_NOTIFICATION", "SecurityEventNotification">>,
       <<"OCPP_MSG_SIGN_CERTIFICATE", "SignCertificate">>,
       <<"OCPP_MSG_SIGNED_FIRMWARE_STATUS_NOTIFICATION", "SignedFirmwareStatusNotification">>,
       <<"OCPP_MSG_SIGNED_UPDATE_FIRMWARE", "SignedUpdateFirmware">> >>

\* A null pointer, the value of an element no initializer designates.
NullString == "(null)"

\* msgstr: one element for each index up to the largest one designated.
get_typestr_array ==
    LET n == Len(msgstr_initializers)
        index(k) == EnumValue(msgstr_initializers[k][1])
        last == CHOOSE i \in {index(k) : k \in 1..n} :
                    \A k \in 1..n : index(k) <= i
    IN  [i \in 0..last |->
            LET ks == {k \in 1..n : index(k) = i}
            IN  IF ks = {}
                THEN NullString
                ELSE msgstr_initializers[
                        CHOOSE k \in ks : \A j \in ks : j <= k][2]]

ocpp_stringify_type(msgtype) ==
    IF msgtype >= OCPP_MSG_MAX
    THEN "UnknownMessage"
    ELSE get_typestr_array[msgtype]

\* The loop of ocpp_get_type_from_string from index i on.
RECURSIVE get_type_from(_, _)
get_type_from(typestr, i) ==
    IF i < OCPP_MSG_MAX
    THEN IF typestr = get_typestr_array[i]
         THEN i
         ELSE get_type_from(typestr, i + 1)
    ELSE OCPP_MSG_MAX

\* As ocpp_get_type_from_string, its loop starting at 1.
ocpp_get_type_from_string_skip(typestr) == get_type_from(typestr, 1)

ocpp_get_type_from_string(typestr) == get_type_from(typestr, 0)

\* The arguments the application gives: every value of the enum, and
\* OCPP_MSG_MAX and the value after it; every name of the table, and names
\* that are none of them (empty, of another case, a prefix, an extension,
\* and the name ocpp_stringify_type gives an unknown type).
TypeArguments == 0..(OCPP_MSG_MAX + 1)

NameArguments ==
    {get_typestr_array[i] : i \in DOMAIN get_typestr_array}
    \cup {"", "heartbeat", "Heart", "Heartbeats", "UnknownMessage"}

\* conversion.fn is the last call (or pair of calls, the second given the
\* result of the first); msgtype and typestr are the argument and the
\* result of the first call, back_type or back_str the result of the
\* second.
StringifyType ==
    /\ \E t \in TypeArguments :
        conversion' = [fn |-> "ocpp_stringify_type", msgtype |-> t,
                       typestr |-> ocpp_stringify_type(t),
                       back_type |-> 0, back_str |-> ""]
    /\ UNCHANGED <<pool, ready, wait, timer, tx_timestamp, rx_timestamp,
                   event_callback, clock, config, transport, pushed>>

GetTypeFromString ==
    /\ \E s \in NameArguments :
        conversion' = [fn |-> "ocpp_get_type_from_string", typestr |-> s,
                       msgtype |-> ocpp_get_type_from_string(s),
                       back_type |-> 0, back_str |-> ""]
    /\ UNCHANGED <<pool, ready, wait, timer, tx_timestamp, rx_timestamp,
                   event_callback, clock, config, transport, pushed>>

\* ocpp_get_type_from_string(ocpp_stringify_type(t))
ParseStringified ==
    /\ conversion.fn = "ocpp_stringify_type"
    /\ conversion' =
        [conversion EXCEPT
            !.fn = "parse_stringified",
            !.back_type = ocpp_get_type_from_string(conversion.typestr)]
    /\ UNCHANGED <<pool, ready, wait, timer, tx_timestamp, rx_timestamp,
                   event_callback, clock, config, transport, pushed>>

\* ocpp_stringify_type(ocpp_get_type_from_string(s))
StringifyParsed ==
    /\ conversion.fn = "ocpp_get_type_from_string"
    /\ conversion' =
        [conversion EXCEPT
            !.fn = "stringify_parsed",
            !.back_str = ocpp_stringify_type(conversion.msgtype)]
    /\ UNCHANGED <<pool, ready, wait, timer, tx_timestamp, rx_timestamp,
                   event_callback, clock, config, transport, pushed>>

NextRegistry ==
    \/ StringifyType
    \/ GetTypeFromString
    \/ ParseStringified
    \/ StringifyParsed

\* The runs of an application that only converts types and names.
SpecRegistry == InitWith(AnySetups) /\ [][NextRegistry]_vars

\* The names ocpp_get_type_from_string recognizes: those of the table.
RecognizedNames == {get_typestr_array[i] : i \in 0..(OCPP_MSG_MAX - 1)}

\* C21: the registry of action names round-trips:
\* ocpp_get_type_from_string(ocpp_stringify_type(t)) = t for every enum
\* value t < OCPP_MSG_MAX, ocpp_stringify_type(ocpp_get_type_from_string(s))
\* = s for every recognized action name s, and a name that is not
\* recognized parses to OCPP_MSG_MAX.  (Every element of the table below
\* OCPP_MSG_MAX is designated, so no null pointer is compared.)
C21_RegistryRoundTrips ==
    /\ DOMAIN get_typestr_array = 0..(OCPP_MSG_MAX - 1)
    /\ \A i \in DOMAIN get_typestr_array : get_typestr_array[i] # NullString
    /\ (conversion.fn = "parse_stringified"
            /\ conversion.msgtype < OCPP_MSG_MAX)
        => conversion.back_type = conversion.msgtype
    /\ (conversion.fn = "stringify_parsed"
            /\ conversion.typestr \in RecognizedNames)
        => conversion.back_str = conversion.typestr
    /\ (conversion.fn = "ocpp_get_type_from_string"
            /\ conversion.typestr \notin RecognizedNames)
        => conversion.msgtype = OCPP_MSG_MAX

\* The first and the last value of the enum have been stringified and
\* parsed back.
C21_Witness ==
    /\ conversion.fn = "parse_stringified"
    /\ conversion.msgtype \in {0, OCPP_MSG_MAX - 1}
    /\ conversion.typestr \in {"Authorize", "SignedUpdateFirmware"}
    /\ conversion.back_type = conversion.msgtype


\* ------------------------------------------------------------------------
\* The order of sends (ocpp.c:66-81, ocpp.c:326-373)
\* ------------------------------------------------------------------------
\* The messages of the wait list the sweep of a step taken now moves back
\* to the ready list.
Retried ==
    {k \in Range(wait) :
        pool[k].expiry <= clock /\ ~should_drop(Engine, pool[k])}

\* C22: a message the timeout sweep moves from the wait list back to the
\* ready list is passed to ocpp_send before every message that was in the
\* ready list at that moment: the step of the sweep, which sends one
\* message once the wait list is empty, sends none of those.
C22_RetryGoesFirst ==
    \A c \in StepCalls :
        Retried # {}
        => \A s \in SendCalls(c) :
            ~(s.slot \in Range(ready) /\ s.msg.id = pool[s.slot].id)


\* The ocpp_send calls of c, in order.
SendSeq(c) == SelectSeq(c.out.e.calls, LAMBDA s : s.fn = "ocpp_send")

\* C23 as stated: a single call of ocpp_step passes at most one message to
\* ocpp_send.
C23_OneSendPerStep ==
    \A c \in StepCalls : Len(SendSeq(c)) <= 1

\* C23, amended: a single call of ocpp_step passes at most two messages to
\* ocpp_send: at most one from the ready list, in its queue stage, and
\* after it at most one Heartbeat the step itself has created, which is
\* possible only when the first message has left the pool.
C23_OneQueuedSendAndOneHeartbeat ==
    \A c \in StepCalls :
        LET sends == SendSeq(c)
        IN  /\ Len(sends) <= 2
            /\ Len(sends) = 2 =>
                /\ sends[2] \in HeartbeatSends(c)
                /\ sends[1] \notin HeartbeatSends(c)
                /\ sends[1].slot \in Range(ready) \cup Range(wait)
                /\ sends[1].slot \in Freed(c)

\* A step sends a request, which fails and is dropped, and then a
\* Heartbeat.
C23_Witness ==
    \E c \in StepCalls :
        /\ Len(SendSeq(c)) = 2
        /\ SendSeq(c)[1].rc # 0
        /\ SendSeq(c)[1].msg.type = "DataTransfer"
        /\ SendSeq(c)[2].msg.type = "Heartbeat"


\* The list s without its element k.
Without(s, k) == SelectSeq(s, LAMBDA j : j # k)

\* C24: requests pushed with ocpp_push_request are passed to ocpp_send for
\* the first time in the order in which they were pushed, as long as none
\* is evicted in between.  In steps: a push puts the new message last in
\* the ready list and keeps the order of the others (a forced push taking
\* out at most one of them); a step sends, of the messages of the ready
\* list, only the head, and keeps the rest at the front of the list in
\* their order; a message never sent is nowhere but in the ready list or
\* the timer list.
C24_FirstSendsInPushOrder ==
    /\ \A c \in PushRequestCalls :
        c.out.rc = 0 =>
            LET o == c.out.e
                k == o.ready[Len(o.ready)]
                front == SubSeq(o.ready, 1, Len(o.ready) - 1)
            IN  /\ o.ready # << >>
                /\ o.pool[k].role = "CALL"
                /\ o.pool[k].type = c.in.type
                /\ o.pool[k].h_sends = 0
                /\ \/ front = ready /\ pool[k].role = "NONE"
                   \/ /\ c.in.force
                      /\ \E j \in Range(ready) :
                            /\ front = Without(ready, j)
                            /\ j \in Freed(c)
    /\ \A c \in PushRequestDeferCalls \cup PushResponseCalls :
        \/ c.out.e.ready = ready
        \/ c.out.rc = 0 /\ c.out.e.ready = Append(ready, Pushed(c))
    /\ \A c \in StepCalls :
        LET o == c.out.e
        IN  /\ \A s \in SendCalls(c) :
                (s.slot \in Range(ready) /\ s.msg.id = pool[s.slot].id)
                => s.slot = Head(ready) /\ s.slot \notin Range(o.ready)
            /\ \E n \in {0, 1} :
                /\ n <= Len(ready)
                /\ Len(o.ready) >= Len(ready) - n
                /\ SubSeq(o.ready, 1, Len(ready) - n)
                   = SubSeq(ready, n + 1, Len(ready))
                /\ n = 1 => SendsOf(c, Head(ready), pool[Head(ready)].id) # {}
    /\ \A k \in Range(wait) : pool[k].attempts >= 1 /\ pool[k].h_sends >= 1

\* Two requests pushed one after the other are in the ready list, neither
\* sent yet, and a step sends the one pushed first.
C24_Witness ==
    /\ Len(ready) >= 2
    /\ \A i \in 1..Len(ready) :
        pool[ready[i]].h_sends = 0 /\ pool[ready[i]].role = "CALL"
    /\ pool[ready[1]].type # pool[ready[2]].type
    /\ \E c \in StepCalls :
        /\ SendsOf(c, ready[1], pool[ready[1]].id) # {}
        /\ c.out.e.ready = Tail(ready)


\* ------------------------------------------------------------------------
\* Retry timing (ocpp.c:267-324, ocpp.c:418-443)
\* ------------------------------------------------------------------------
\* The engine as the ingress stage of the step c finds it: after the queue
\* stage of that step.
QueueStage(c) ==
    process_queued_messages(ocpp_lock(Engine), clock, c.in.rc1)

\* The waiting message the frame received in step c is matched to (0:
\* none, or no response frame received).
Matched(c) ==
    IF c.in.rx.err = 0 /\ c.in.rx.msg.role \in {"CALLRESULT", "CALLERROR"}
    THEN find_msg_by_idstr(QueueStage(c), QueueStage(c).wait,
                           c.in.rx.msg.id)
    ELSE 0

\* C25: when a matching CALLERROR arrives at time now for a
\* transaction-related message whose attempts is below
\* TransactionMessageAttempts, the message is put back in the wait list
\* with expiry = now + TransactionMessageRetryInterval * attempts, is not
\* sent in that step, keeps its attempts, and is not passed to ocpp_send
\* by any step whose time is below that expiry: a step taken before the
\* expiry of a waiting message does not send it, does not put it in the
\* ready list and does not bring its expiry forward.
C25_CallErrorBacksOff ==
    \A c \in StepCalls :
        LET o == c.out.e
            q == QueueStage(c)
            req == Matched(c)
        IN  /\ (/\ req # 0
                /\ c.in.rx.msg.role = "CALLERROR"
                /\ is_transaction_related(q.pool[req])
                /\ q.pool[req].attempts < config.TransactionMessageAttempts)
               => /\ req \in Range(o.wait)
                  /\ req \notin Range(o.ready)
                  /\ o.pool[req].id = q.pool[req].id
                  /\ o.pool[req].attempts = q.pool[req].attempts
                  /\ o.pool[req].expiry
                     = clock + config.TransactionMessageRetryInterval
                                 * q.pool[req].attempts
                  /\ SendSeq(c)
                     = SelectSeq(q.calls, LAMBDA s : s.fn = "ocpp_send")
            /\ \A k \in Range(wait) :
                pool[k].expiry > clock
                => /\ SendsOf(c, k, pool[k].id) = {}
                   /\ k \notin Range(o.ready)
                   /\ (k \in Range(o.wait) /\ o.pool[k].id = pool[k].id)
                      => /\ o.pool[k].expiry >= pool[k].expiry
                         /\ o.pool[k].attempts = pool[k].attempts

\* A CALLERROR answers the second send of a transaction-related request
\* that has a third attempt left: it waits twice the retry interval.
C25_Witness ==
    \E c \in StepCalls :
        LET req == Matched(c)
        IN  /\ req # 0
            /\ c.in.rx.msg.role = "CALLERROR"
            /\ is_transaction_related(QueueStage(c).pool[req])
            /\ QueueStage(c).pool[req].attempts = 2
            /\ config.TransactionMessageAttempts = 3
            /\ c.out.e.pool[req].expiry
               = clock + 2 * config.TransactionMessageRetryInterval
            /\ req \in Range(c.out.e.wait)


\* C26: a message passed to ocpp_send at time t that receives no matching
\* response is not passed to ocpp_send again by any step whose time is
\* below t + OCPP_DEFAULT_TX_TIMEOUT_SEC, whether that send succeeded or
\* failed.  A message a step sends and keeps, without a response matched
\* to it in that step, waits with expiry t + OCPP_DEFAULT_TX_TIMEOUT_SEC;
\* a step taken before that expiry which matches no response to the
\* message does not send it and leaves it waiting with the same expiry;
\* and every send of a message that no response can re-time (one that is
\* not transaction-related) comes at least OCPP_DEFAULT_TX_TIMEOUT_SEC
\* after the previous send of it.
C26_NoResendWithinTimeout ==
    \A c \in StepCalls :
        LET o == c.out.e
            T == OCPP_DEFAULT_TX_TIMEOUT_SEC
        IN  /\ \A s \in SendCalls(c) :
                /\ s.now = clock
                /\ Cardinality(SendsOf(c, s.slot, s.msg.id)) = 1
                /\ (/\ o.pool[s.slot].role # "NONE"
                    /\ o.pool[s.slot].id = s.msg.id
                    /\ Matched(c) # s.slot)
                   => /\ s.slot \in Range(o.wait)
                      /\ s.slot \notin Range(o.ready)
                      /\ o.pool[s.slot].h_sent_at = clock
                      /\ o.pool[s.slot].expiry = clock + T
                /\ (s.prev_sent_at >= 0 /\ ~is_transaction_related(s.msg))
                   => s.now - s.prev_sent_at >= T
            /\ \A k \in Slots :
                (/\ pool[k].role # "NONE"
                 /\ pool[k].h_sent_at >= 0
                 /\ pool[k].expiry = pool[k].h_sent_at + T
                 /\ clock < pool[k].h_sent_at + T
                 /\ Matched(c) # k)
                => /\ k \in Range(wait)
                   /\ SendsOf(c, k, pool[k].id) = {}
                   /\ k \in Range(o.wait)
                   /\ o.pool[k].id = pool[k].id
                   /\ o.pool[k].expiry = pool[k].expiry
                   /\ o.pool[k].h_sent_at = pool[k].h_sent_at

\* A message waits since its previous send, and the step taken exactly
\* OCPP_DEFAULT_TX_TIMEOUT_SEC after that send, with no response matched
\* to it, sends it again.
C26_Witness ==
    \E c \in StepCalls : \E s \in SendCalls(c) :
        /\ s.slot \in Range(wait)
        /\ pool[s.slot].id = s.msg.id
        /\ s.prev_sent_at >= 0
        /\ pool[s.slot].expiry
           = s.prev_sent_at + OCPP_DEFAULT_TX_TIMEOUT_SEC
        /\ s.now = s.prev_sent_at + OCPP_DEFAULT_TX_TIMEOUT_SEC
        /\ Matched(c) # s.slot

\* ------------------------------------------------------------------------
\* The timestamps (ocpp.c:134-144, ocpp.c:445-489)
\* ------------------------------------------------------------------------
\* C27: after ocpp_init the tx timestamp changes only in a step that
\* receives a CALLRESULT or CALLERROR matched to a waiting message, where
\* it becomes the time of the step; it is left unchanged by every send
\* (successful or failed), by a received CALL, by a response matched to no
\* waiting message, by a step that receives nothing or whose ocpp_recv
\* fails, and by every push.
C27_TxTimestampOnlyOnMatchedResponse ==
    /\ \A c \in StepCalls :
        /\ Matched(c) # 0 => c.out.e.tx_timestamp = clock
        /\ Matched(c) = 0 => c.out.e.tx_timestamp = tx_timestamp
    /\ \A c \in PushRequestCalls \cup PushRequestDeferCalls
                \cup PushResponseCalls :
        c.out.e.tx_timestamp = tx_timestamp

\* At a time later than the tx timestamp, one step sends a message
\* successfully and receives the response matched to it, which moves the
\* timestamp, and another makes the same send and receives a CALL, which
\* does not.
C27_Witness ==
    /\ tx_timestamp < clock
    /\ \E c \in StepCalls :
        /\ \E s \in SendCalls(c) : s.rc = 0 /\ Matched(c) = s.slot
        /\ c.out.e.tx_timestamp = clock
    /\ \E c \in StepCalls :
        /\ \E s \in SendCalls(c) : s.rc = 0
        /\ c.in.rx.err = 0
        /\ c.in.rx.msg.role = "CALL"
        /\ c.out.e.tx_timestamp = tx_timestamp


\* C28: whenever ocpp_recv returns 0 (a frame was received) in a step at
\* time now, the rx timestamp equals now after the step, whatever the role
\* of the frame and whether or not a response was matched to a waiting
\* message.
C28_RxTimestampOnEveryFrame ==
    \A c \in StepCalls :
        c.in.rx.err = 0 => c.out.e.rx_timestamp = clock


\* ------------------------------------------------------------------------
\* The wait list (ocpp.c:297-324, ocpp.c:201-214)
\* ------------------------------------------------------------------------
\* A message of role CALLRESULT or CALLERROR: one ocpp_push_response made.
IsResponse(m) == m.role \in {"CALLRESULT", "CALLERROR"}

\* A message send_message keeps in the wait list when its send has failed
\* (m as it is passed to ocpp_send, its attempts counted).
KeptOnFailure(m) ==
    \/ m.attempts < config.OCPP_DEFAULT_TX_RETRIES
    \/ is_transaction_related(m)
    \/ m.type = "BootNotification"

C30_ResponseMatchedOnlyByEqualId ==
    \A c \in StepCalls :
        LET q == QueueStage(c)
            o == c.out.e
        IN  (/\ c.in.rx.err = 0
             /\ IsResponse(c.in.rx.msg)
             /\ \A k \in Range(q.wait) : q.pool[k].id # c.in.rx.msg.id)
            => /\ \A k \in Range(q.wait) :
                    /\ k \in Range(o.wait)
                    /\ o.pool[k] = q.pool[k]
               /\ \A ev \in FreeEvents(c) : ev.cause # "response"
               /\ event_callback
                  => \E ev \in Range(o.events) :
                        /\ ev.cause = "incoming"
                        /\ ev.kind = -ENOLINK


\* ------------------------------------------------------------------------
\* Unmatched responses (ocpp.c:458-489)
\* ------------------------------------------------------------------------
\* The engine as the ingress stage of the step c leaves it.
IngressStage(c) ==
    process_incoming_messages(QueueStage(c), clock, c.in.rx)

\* The step c receives a CALLRESULT or CALLERROR that the engine matches to
\* no waiting message.
UnmatchedResponse(c) ==
    /\ c.in.rx.err = 0
    /\ IsResponse(c.in.rx.msg)
    /\ Matched(c) = 0

\* C31: when a received CALLRESULT or CALLERROR matches no waiting message,
\* the step emits exactly one event whose kind is -ENOLINK (given the
\* frame; none when no callback is registered), the ingress stage frees no
\* message and leaves the pool (so every attempts and expiry) and the
\* ready, wait and timer lists as they were before it, and the tx
\* timestamp is unchanged by the step.
C31_UnmatchedResponseIsDiscarded ==
    \A c \in StepCalls :
        UnmatchedResponse(c) =>
            LET q == QueueStage(c)
                i == IngressStage(c)
                o == c.out.e
                enolink == {n \in 1..Len(o.events) :
                                o.events[n].kind = -ENOLINK}
            IN  /\ Cardinality(enolink) = IF event_callback THEN 1 ELSE 0
                /\ \A n \in enolink :
                    /\ o.events[n].cause = "incoming"
                    /\ o.events[n].msg = c.in.rx.msg
                /\ event_callback
                   => /\ Len(i.events) = Len(q.events) + 1
                      /\ i.events[Len(i.events)].kind = -ENOLINK
                /\ \A ev \in FreeEvents(c) : ev.cause # "response"
                /\ i.pool = q.pool
                /\ i.ready = q.ready
                /\ i.wait = q.wait
                /\ i.timer = q.timer
                /\ i.tx_timestamp = q.tx_timestamp
                /\ o.tx_timestamp = tx_timestamp

\* A response that matches nothing arrives while a message waits and others
\* are in the ready list: one -ENOLINK event, the waiting message untouched.
C31_Witness ==
    \E c \in StepCalls :
        /\ UnmatchedResponse(c)
        /\ event_callback
        /\ QueueStage(c).wait # << >>
        /\ IngressStage(c).wait = QueueStage(c).wait
        /\ clock > tx_timestamp
        /\ \E ev \in Range(c.out.e.events) : ev.kind = -ENOLINK


\* ------------------------------------------------------------------------
\* The attempts counter (ocpp.c:187, ocpp.c:299)
\* ------------------------------------------------------------------------
\* Slot k holds the same message before and after the call c.
SameMessage(c, k) ==
    /\ pool[k].role # "NONE"
    /\ c.out.e.pool[k].role = pool[k].role
    /\ c.out.e.pool[k].id = pool[k].id

\* Slot k holds, after the call c, a message the call has created.
NewMessage(c, k) ==
    /\ c.out.e.pool[k].role # "NONE"
    /\ ~SameMessage(c, k)

\* C32: the attempts of a message is 0 when the message is allocated,
\* increases by exactly 1 on every send_message for it (each makes one
\* ocpp_send call, successful or not) and is changed by nothing else while
\* the message is live: the attempts of every live message equals the
\* number of ocpp_send calls made with it; a message a push creates has
\* attempts 0 and a push changes the attempts of no other message; a step
\* adds to the attempts of each message it keeps the number of sends it
\* makes of it, and a Heartbeat it creates has as many attempts as sends.
C32_AttemptsCountsSends ==
    /\ \A k \in Slots :
        pool[k].role # "NONE" => pool[k].attempts = pool[k].h_sends
    /\ \A c \in PushRequestCalls \cup PushRequestDeferCalls
                \cup PushResponseCalls :
        \A k \in Slots :
            /\ SameMessage(c, k)
               => c.out.e.pool[k].attempts = pool[k].attempts
            /\ NewMessage(c, k) => c.out.e.pool[k].attempts = 0
    /\ \A c \in StepCalls :
        \A k \in Slots :
            /\ SameMessage(c, k)
               => c.out.e.pool[k].attempts
                  = pool[k].attempts
                    + Cardinality(SendsOf(c, k, pool[k].id))
            /\ NewMessage(c, k)
               => c.out.e.pool[k].attempts
                  = Cardinality(SendsOf(c, k, c.out.e.pool[k].id))
            /\ \A s \in SendCalls(c) :
                s.slot = k => s.msg.attempts = s.msg.h_sends + 1

\* A step sends for the second time a message whose first send was made,
\* the send fails, and the message is kept with attempts 2; in the same
\* state a push creates a message with attempts 0.
C32_Witness ==
    /\ \E c \in StepCalls : \E s \in SendCalls(c) :
        /\ s.rc # 0
        /\ pool[s.slot].attempts = 1
        /\ SameMessage(c, s.slot)
        /\ c.out.e.pool[s.slot].attempts = 2
    /\ \E c \in PushRequestCalls : \E k \in Slots :
        NewMessage(c, k) /\ c.out.rc = 0


\* ------------------------------------------------------------------------
\* MESSAGE_FREE accounting (ocpp.c:146-175)
\* ------------------------------------------------------------------------
\* The number of pool slots in use in the engine e.
Live(e) == Cardinality({k \in Slots : e.pool[k].role # "NONE"})

\* The number of successful alloc_message calls of a push call c (one when
\* it returns 0) and of a step c (one when its heartbeat stage finds a
\* Heartbeat due and a free slot).
PushAllocations(c) == IF c.out.rc = 0 THEN 1 ELSE 0

StepAllocations(c) ==
    IF /\ should_send_heartbeat(HeartbeatStage(c), clock)
       /\ alloc_message(HeartbeatStage(c)).msg # 0
    THEN 1
    ELSE 0

\* What C33 asks of the MESSAGE_FREE events of the call c, which makes
\* allocations allocations.
FreeEventsAccount(c, allocations) ==
    LET o == c.out.e
        frees == {i \in 1..Len(o.events) :
                     o.events[i].kind = OCPP_EVENT_MESSAGE_FREE}
    IN  /\ \A i \in frees :
            /\ o.events[i].slot \in Slots
            /\ o.events[i].msg.role \in {"CALL", "CALLRESULT", "CALLERROR"}
            /\ ~o.events[i].locked
            /\ \/ o.pool[o.events[i].slot].role = "NONE"
               \/ o.pool[o.events[i].slot].id # o.events[i].msg.id
               \/ o.pool[o.events[i].slot].role # o.events[i].msg.role
        /\ \A k \in Freed(c) :
            /\ Cardinality(FreesOf(c, k, pool[k].id)) = 1
            /\ \A i \in FreesOf(c, k, pool[k].id) :
                /\ o.events[i].msg.role = pool[k].role
                /\ o.events[i].msg.type = pool[k].type
                /\ o.events[i].msg.id = pool[k].id
        /\ \A k \in Slots :
            SameMessage(c, k)
            => /\ FreesOf(c, k, pool[k].id) = {}
               /\ Occurrences(o.ready, k) + Occurrences(o.wait, k)
                      + Occurrences(o.timer, k) = 1
        /\ Cardinality(frees) + Live(o) = Live(Engine) + allocations

\* C33: with a callback registered, every message that leaves the pool
\* causes exactly one MESSAGE_FREE event, given the message with its id,
\* type and role (so before the slot is zeroed); no MESSAGE_FREE is
\* emitted for a message that stays in a list; and across every call of
\* the public API the allocations made equal the growth of the number of
\* live slots plus the MESSAGE_FREE events emitted, so that allocations =
\* live slots + MESSAGE_FREE events between the calls.
C33_OneFreeEventPerFreedMessage ==
    event_callback =>
        /\ \A c \in PushRequestCalls \cup PushRequestDeferCalls
                    \cup PushResponseCalls :
            FreeEventsAccount(c, PushAllocations(c))
        /\ \A c \in StepCalls : FreeEventsAccount(c, StepAllocations(c))

\* With the pool full, a forced push evicts a message (MESSAGE_FREE) and
\* takes its slot, and a step frees a waiting message on the response
\* matched to it.
C33_Witness ==
    /\ event_callback
    /\ PoolFull
    /\ \E c \in PushRequestCalls :
        /\ c.out.rc = 0
        /\ \E ev \in FreeEvents(c) : ev.cause = "evict"
    /\ \E c \in StepCalls :
        \E ev \in FreeEvents(c) : ev.cause = "response"


\* ------------------------------------------------------------------------
\* The attempts of droppable messages (ocpp.c:235-248, ocpp.c:297-349)
\* ------------------------------------------------------------------------
\* C34: in every reachable state, every live message of a droppable type
\* (not BootNotification, StartTransaction, StopTransaction, MeterValues)
\* has attempts <= OCPP_DEFAULT_TX_RETRIES, and such a message is never
\* passed to ocpp_send more than OCPP_DEFAULT_TX_RETRIES times: the bound
\* holds in the current state and after every step, every send of such a
\* message finds fewer than that many sends made, and one in the ready
\* list has attempts to spare.
C34_DroppableAttemptsBounded ==
    LET R == config.OCPP_DEFAULT_TX_RETRIES
    IN  /\ \A k \in Slots :
            (pool[k].role # "NONE" /\ ~Undroppable(pool[k]))
            => /\ pool[k].attempts <= R
               /\ pool[k].h_sends <= R
               /\ k \in Range(ready) => pool[k].attempts < R
        /\ \A c \in StepCalls :
            /\ \A s \in SendCalls(c) :
                ~Undroppable(s.msg)
                => /\ s.msg.h_sends < R
                   /\ s.msg.attempts <= R
            /\ \A k \in Slots :
                (c.out.e.pool[k].role # "NONE"
                    /\ ~Undroppable(c.out.e.pool[k]))
                => c.out.e.pool[k].attempts <= R

\* A droppable request has been sent OCPP_DEFAULT_TX_RETRIES = 2 times and
\* waits, its timeout reached: the step frees it without another send.
C34_Witness ==
    \E k \in Range(wait) :
        /\ config.OCPP_DEFAULT_TX_RETRIES = 2
        /\ DroppableRequest(pool[k])
        /\ pool[k].attempts = 2
        /\ pool[k].expiry <= clock
        /\ \E c \in StepCalls :
            /\ k \in Freed(c)
            /\ SendsOf(c, k, pool[k].id) = {}


\* ------------------------------------------------------------------------
\* Forced eviction and the lists (ocpp.c:509-528, ocpp.c:632-651)
\* ------------------------------------------------------------------------
\* C35: forced eviction frees only messages of the ready list: when the
\* pool is full and the ready list is empty, ocpp_push_request with force =
\* true returns -ENOMEM and frees nothing, even if droppable messages are
\* in the wait list or the timer list; and no ocpp_push_request (and no
\* other push) frees, moves or changes a message of the wait list or of
\* the timer list.
C35_EvictionOnlyFromReady ==
    /\ \A c \in PushRequestCalls :
        LET o == c.out.e
        IN  /\ Freed(c) \subseteq Range(ready)
            /\ \A ev \in FreeEvents(c) :
                ev.slot \in Range(ready) /\ ev.cause = "evict"
            /\ o.wait = wait
            /\ o.timer = timer
            /\ \A k \in Range(wait) \cup Range(timer) : o.pool[k] = pool[k]
            /\ (PoolFull /\ ready = << >>)
               => /\ c.out.rc = -ENOMEM
                  /\ o.events = << >>
                  /\ o.pool = pool
                  /\ o.ready = ready
    /\ \A c \in PushRequestDeferCalls \cup PushResponseCalls :
        /\ Freed(c) = {}
        /\ FreeEvents(c) = {}
        /\ c.out.e.wait = wait

\* The pool is full with a droppable request waiting and another one
\* deferred, the ready list is empty, and a forced push returns.
C35_Witness ==
    /\ PoolFull
    /\ ready = << >>
    /\ \E k \in Range(wait) : DroppableRequest(pool[k])
    /\ \E k \in Range(timer) : DroppableRequest(pool[k])
    /\ \E c \in PushRequestCalls : c.in.force /\ c.out.rc = -ENOMEM


\* ------------------------------------------------------------------------
\* A callback that calls back into the engine (ocpp.c:146-175)
\* ------------------------------------------------------------------------
\* The calls the callback makes when it is given MESSAGE_FREE, gen being
\* the id already handed to the call that raises the event.
CallbackPushes(gen) ==
    {[NoCall EXCEPT !.fn = "ocpp_push_request", !.type = "DataTransfer",
                    !.force = force, !.avoid = {gen}] :
        force \in BOOLEAN}
    \cup {[NoCall EXCEPT !.fn = "ocpp_push_request_defer",
                         !.type = "DataTransfer", !.timer_sec = 2,
                         !.now = clock, !.avoid = {gen}]}
    \cup {[NoCall EXCEPT !.fn = "ocpp_push_response", !.req = req,
                         !.avoid = {gen}] :
        req \in Requests}

\* The calls of ocpp_push_request and ocpp_step possible now, made with a
\* callback that calls back into the engine.
ReentrantPushRequestCalls ==
    UNION {
        {[in |-> [type |-> type, force |-> force, callback |-> cb],
          out |-> ocpp_push_request([Engine EXCEPT !.callback = cb],
                                    type, force, gen)] :
            type \in PushTypes, force \in BOOLEAN,
            cb \in CallbackPushes(gen)} :
        gen \in FreshIds}

ReentrantStepCallsWith(gen, cb) ==
    LET l == ocpp_lock([Engine EXCEPT !.callback = cb])
        sends1 == process_queued_messages(l, clock, 0).calls # << >>
        after_recv(rc1, rx) ==
            process_incoming_messages(
                process_queued_messages(l, clock, rc1), clock, rx)
        sends2(rc1, rx) ==
            /\ should_send_heartbeat(after_recv(rc1, rx), clock)
            /\ alloc_message(after_recv(rc1, rx)).msg # 0
    IN  UNION {UNION {
            {[in |-> [rc1 |-> rc1, rx |-> rx, rc2 |-> rc2,
                      callback |-> cb],
              out |-> [e |-> ocpp_step([Engine EXCEPT !.callback = cb],
                                       clock, rc1, rx, rc2, gen),
                       rc |-> 0]] :
                rc2 \in IF sends2(rc1, rx) THEN SendResults ELSE {0}} :
            rx \in RecvResults(process_queued_messages(l, clock, rc1))} :
            rc1 \in IF sends1 THEN SendResults ELSE {0}}

ReentrantStepCalls ==
    UNION {UNION {ReentrantStepCallsWith(gen, cb) :
                    cb \in CallbackPushes(gen)} :
           gen \in FreshIds}

PushRequestReentrant ==
    /\ pushed < MaxPushes
    /\ pushed' = pushed + 1
    /\ \E c \in ReentrantPushRequestCalls : Commit(c.out.e)
    /\ UNCHANGED clock

StepReentrant ==
    /\ \E c \in ReentrantStepCalls :
        /\ \A k \in Slots : c.out.e.pool[k].attempts <= MaxSends
        /\ Commit(c.out.e)
    /\ UNCHANGED <<clock, pushed>>

NextReentrant ==
    \/ Tick
    \/ PushRequestReentrant
    \/ PushRequestDefer
    \/ PushResponse
    \/ StepReentrant

\* Setups with a callback, over which a message is freed in each of the
\* ways the engine frees one: after a failed send, by the timeout sweep,
\* after the send of a response, on a matched response, by eviction.
ReentrantSetups ==
    DownSetups
    \cup {Setup("silent", TRUE, 1, 2, 1, 1),
          Setup("callerror", TRUE, 1, 0, 1, 1)}

SpecReentrant == InitWith(ReentrantSetups) /\ [][NextReentrant]_vars

\* In the engine e every slot is in exactly one of free, ready, wait,
\* timer, and it is free exactly when its role is NONE.
WellLinked(e) ==
    \A k \in Slots :
        /\ e.pool[k].role \in {"NONE", "CALL", "CALLRESULT", "CALLERROR"}
        /\ e.pool[k].role # "NONE" => e.pool[k].id # NULL
        /\ Occurrences(e.ready, k) + Occurrences(e.wait, k)
               + Occurrences(e.timer, k)
           = IF e.pool[k].role = "NONE" THEN 0 ELSE 1

\* C36: if the callback calls ocpp_push_request, ocpp_push_request_defer or
\* ocpp_push_response while it handles MESSAGE_FREE (the lock released),
\* the slot being freed still carries its role, the new message is never
\* given that slot, and so the zeroing that follows the callback never
\* erases a slot that is in the ready, wait or timer list: after every
\* such step and push, and in every state they lead to, each slot in a
\* list is live and each live slot is in exactly one list.
C36_CallbackPushSparesFreedSlot ==
    /\ WellLinked(Engine)
    /\ \A c \in ReentrantStepCalls \cup ReentrantPushRequestCalls :
        /\ WellLinked(c.out.e)
        /\ \A r \in Range(c.out.e.reentries) :
            /\ r.held \in {"CALL", "CALLRESULT", "CALLERROR"}
            /\ r.rc = 0 => r.slot \in Slots \ {r.freeing}
            /\ r.rc # 0 => r.rc = -ENOMEM

\* The pool is full, and a step frees a message: a callback that pushes
\* without force is refused (the slot being freed is not given out, and is
\* free after the step), and one that pushes with force evicts another
\* message and is given that message's slot.
C36_Witness ==
    /\ PoolFull
    /\ \E c \in ReentrantStepCalls : \E r \in Range(c.out.e.reentries) :
        /\ ~c.in.callback.force
        /\ r.rc = -ENOMEM
        /\ c.out.e.pool[r.freeing].role = "NONE"
    /\ \E c \in ReentrantStepCalls : \E r \in Range(c.out.e.reentries) :
        /\ c.in.callback.force
        /\ r.rc = 0
        /\ r.slot # r.freeing
        /\ \E ev \in FreeEvents(c) : ev.cause = "evict" /\ ev.slot = r.slot

====
